---- MODULE Spec2Model ----
(***************************************************************************)
(* A model of the SEO audit tool: the audit pipeline of app/main.py        *)
(* (start_audit, run_audit), the analyzer base class of                    *)
(* app/analyzers/base.py and the rule code of the analyzers under          *)
(* app/analyzers.                                                          *)
(*                                                                         *)
(* A Python dict is modelled as the sequence of its values in insertion    *)
(* order (the keys are the records' url fields and are distinct), so that  *)
(* "for url, page in pages.items()" is a walk along the sequence.          *)
(***************************************************************************)
EXTENDS Integers, Sequences, FiniteSets, TLC

VARIABLES
    audits,         \* main.py: audits, audit id -> AuditResult
    audit_queues,   \* main.py: audit_queues, audit id -> the events put on the queue
    taken,          \* audit id -> how many events of the queue were taken by queue.get()
    streams,        \* the open and closed event_generator instances of audit_status
    reply,          \* the last response of download_report
    task,           \* the frame of the background task run_audit(audit_id)
    sev_in,         \* the issue list handed to _determine_overall_severity
    sev_out,        \* what it returned ("-" before the call)
    graph,          \* the pages dict handed to a structural analyzer
    graph_out,      \* the analyzer's findings (analyzer "-" before the call)
    speed           \* the frame of one SpeedAnalyzer.analyze call

vars == <<audits, audit_queues, taken, streams, reply, task,
          sev_in, sev_out, graph, graph_out, speed>>

pipeline_vars == <<audits, audit_queues, task>>
severity_vars == <<sev_in, sev_out>>
graph_vars == <<graph, graph_out>>
speed_vars == <<speed>>
api_vars == <<taken, streams, reply>>

-----------------------------------------------------------------------------
(* Bounds of the model *)

\* the crawler yields at most this many pages in one audit
MaxCrawl == 2

\* the longest issue list handed to _determine_overall_severity
MaxIssues == 3

\* the longest redirect chain of a page (number of URLs in it)
MaxChain == 4

\* the most pages handed to MetaTagsAnalyzer
MaxMetaPages == 6

\* the most pages handed to ContentSectionsAnalyzer
MaxSectionPages == 3

\* the most keepalives one progress stream sends
MaxPings == 1

\* the most events waiting in a queue when the second stream is opened
MaxBacklog == 2

\* the largest capacity considered for the queue of an audit
MaxCapacity == 10

-----------------------------------------------------------------------------
(* models.py: SeverityLevel, AuditStatus (referenced by name in the code) *)

SeverityLevel == {"SUCCESS", "INFO", "WARNING", "ERROR"}

AuditStatus ==
    {"PENDING", "CRAWLING", "ANALYZING", "GENERATING_REPORT", "COMPLETED", "FAILED"}

None == "None"

\* no request to download_report was answered yet
NoResponse == [status_code |-> 0]

\* settings.MAX_PAGES (config.py), the divisor of the crawl progress
MAX_PAGES == 2

\* settings.MAX_CLICK_DEPTH (config.py)
MAX_CLICK_DEPTH == 3

\* the literal 5 of "if max_depth > 5"
VERY_DEEP == 5

\* the [:20] cut of every affected_urls list of the structural analyzers
AFFECTED_CAP == 20

-----------------------------------------------------------------------------
(* analyzers/base.py *)

\* BaseAnalyzer.create_issue; affected_urls defaults to [], count to 1
create_issue(category, severity, affected_urls, count) ==
    [category |-> category, severity |-> severity,
     affected_urls |-> affected_urls, count |-> count]

\* BaseAnalyzer.create_result
create_result(name, severity, issues) ==
    [name |-> name, severity |-> severity, issues |-> issues]

\* [issue.severity for issue in issues]
severities(issues) == {issues[k].severity : k \in 1..Len(issues)}

\* a plausible slip: WARNING is tested before ERROR
determine_overall_severity_WarningFirst(issues) ==
    IF issues = <<>> THEN "SUCCESS"
    ELSE IF "WARNING" \in severities(issues) THEN "WARNING"
    ELSE IF "ERROR" \in severities(issues) THEN "ERROR"
    ELSE IF "INFO" \in severities(issues) THEN "INFO"
    ELSE "SUCCESS"

\* BaseAnalyzer._determine_overall_severity
determine_overall_severity(issues) ==
    IF issues = <<>> THEN "SUCCESS"
    ELSE IF "ERROR" \in severities(issues) THEN "ERROR"
    ELSE IF "WARNING" \in severities(issues) THEN "WARNING"
    ELSE IF "INFO" \in severities(issues) THEN "INFO"
    ELSE "SUCCESS"

\* issues.append(...) under a condition
When(cond, issue) == IF cond THEN <<issue>> ELSE <<>>

\* lst[:n]
Take(lst, n) == SubSeq(lst, 1, IF Len(lst) < n THEN Len(lst) ELSE n)

-----------------------------------------------------------------------------
(* models.py: PageData, as the analyzers read it.  internal_links is the   *)
(* set of same-site URLs the page refers to; redirect_chain is the         *)
(* sequence of URLs visited on the way to the page, the last being url.    *)

PageData(url, status_code, depth, internal_links, redirect_chain) ==
    [url |-> url, status_code |-> status_code, depth |-> depth,
     internal_links |-> internal_links, redirect_chain |-> redirect_chain]

\* pages.keys()
Keys(pages) == {pages[k].url : k \in 1..Len(pages)}

\* pages.get(url) for a url that is a key
Get(pages, url) == pages[CHOOSE k \in 1..Len(pages) : pages[k].url = url]

\* [x[0] for x in lst]
Firsts(lst) == [k \in 1..Len(lst) |-> lst[k][1]]

\* the elements of a list
Range(lst) == {lst[k] : k \in 1..Len(lst)}

\* list(some_set): the order Python walks a set in is not fixed by the code
RECURSIVE SetToSeq(_)
SetToSeq(S) ==
    IF S = {} THEN <<>>
    ELSE LET x == CHOOSE y \in S : TRUE IN <<x>> \o SetToSeq(S \ {x})

\* lst.sort(key=lambda x: x[1], reverse=True): stable, largest key first
RECURSIVE SortBySecondDesc(_)
SortBySecondDesc(lst) ==
    IF lst = <<>> THEN <<>>
    ELSE LET top == CHOOSE k \in 1..Len(lst) :
                        /\ \A j \in 1..Len(lst) : lst[j][2] <= lst[k][2]
                        /\ \A j \in 1..(k - 1) : lst[j][2] < lst[k][2]
             rest == [j \in 1..(Len(lst) - 1) |-> IF j < top THEN lst[j] ELSE lst[j + 1]]
         IN <<lst[top]>> \o SortBySecondDesc(rest)

-----------------------------------------------------------------------------
(* analyzers/structure.py: StructureAnalyzer.analyze *)

\* first loop: the links of every 200-status page, the page's own included
pages_with_incoming_links(pages) ==
    UNION {pages[k].internal_links :
              k \in {j \in 1..Len(pages) : pages[j].status_code = 200}}

\* "Skip homepage"
is_homepage(url, base_url) == url = base_url \/ url = base_url \o "/"

\* second loop
orphan_pages(pages, base_url) ==
    LET sel == SelectSeq(pages, LAMBDA p : /\ p.status_code = 200
                                           /\ ~is_homepage(p.url, base_url)
                                           /\ p.url \notin pages_with_incoming_links(pages))
    IN [k \in 1..Len(sel) |-> sel[k].url]

\* first loop: pages deeper than MAX_CLICK_DEPTH, as (url, depth)
deep_pages(pages) ==
    LET sel == SelectSeq(pages, LAMBDA p : p.status_code = 200 /\ p.depth > MAX_CLICK_DEPTH)
    IN [k \in 1..Len(sel) |-> <<sel[k].url, sel[k].depth>>]

\* first loop: depth -> urls of the 200-status pages at that depth
depth_distribution(pages) ==
    [d \in {pages[k].depth : k \in {j \in 1..Len(pages) : pages[j].status_code = 200}} |->
        LET sel == SelectSeq(pages, LAMBDA p : p.status_code = 200 /\ p.depth = d)
        IN [k \in 1..Len(sel) |-> sel[k].url]]

\* third loop: 200-status pages with fewer than 3 links, as (url, link_count)
pages_with_few_links(pages) ==
    LET sel == SelectSeq(pages, LAMBDA p : /\ p.status_code = 200
                                           /\ Cardinality(p.internal_links) < 3)
    IN [k \in 1..Len(sel) |-> <<sel[k].url, Cardinality(sel[k].internal_links)>>]

\* max(depth_distribution.keys()) if depth_distribution else 0
max_depth(pages) ==
    LET ds == DOMAIN depth_distribution(pages)
    IN IF ds = {} THEN 0 ELSE CHOOSE d \in ds : \A e \in ds : e <= d

\* "Create issues"
StructureIssues(pages, base_url) ==
    LET deep == SortBySecondDesc(deep_pages(pages))
        orphans == orphan_pages(pages, base_url)
        few == pages_with_few_links(pages)
    IN When(deep # <<>>,
            create_issue("deep_pages", "WARNING",
                         Firsts(Take(deep, AFFECTED_CAP)), Len(deep)))
       \o When(orphans # <<>>,
            create_issue("orphan_pages", "WARNING",
                         Take(orphans, AFFECTED_CAP), Len(orphans)))
       \o When(few # <<>>,
            create_issue("few_internal_links", "INFO",
                         Firsts(Take(few, AFFECTED_CAP)), Len(few)))
       \o When(max_depth(pages) > VERY_DEEP,
            create_issue("very_deep_structure", "ERROR", <<>>, 1))

StructureAnalyzer(pages, base_url) ==
    create_result("structure",
                  determine_overall_severity(StructureIssues(pages, base_url)),
                  StructureIssues(pages, base_url))

-----------------------------------------------------------------------------
(* analyzers/redirects.py: RedirectsAnalyzer.analyze *)

\* Step 1: redirecting_urls[url] = end_url, for every page with a chain of
\* two or more URLs; the key is the key of the page in the pages dict
redirecting_urls(pages) ==
    [u \in {pages[k].url : k \in {j \in 1..Len(pages) : Len(pages[j].redirect_chain) >= 2}} |->
        LET chain == Get(pages, u).redirect_chain IN chain[Len(chain)]]

\* Step 1: chain_info of every page with a chain of two or more URLs
all_chains(pages) ==
    LET sel == SelectSeq(pages, LAMBDA p : Len(p.redirect_chain) >= 2)
    IN [k \in 1..Len(sel) |->
            [start_url |-> sel[k].redirect_chain[1],
             end_url |-> sel[k].redirect_chain[Len(sel[k].redirect_chain)],
             hops |-> Len(sel[k].redirect_chain) - 1,
             chain |-> sel[k].redirect_chain]]

chains_3_plus(pages) == SelectSeq(all_chains(pages), LAMBDA c : c.hops >= 3)

chains_2_hops_AtLeastTwo(pages) == SelectSeq(all_chains(pages), LAMBDA c : c.hops >= 2)

chains_2_hops(pages) == SelectSeq(all_chains(pages), LAMBDA c : c.hops = 2)

\* Step 2: one entry per (200-status page, link of it that is a key of
\* redirecting_urls); the entries of one page follow the walk of its link set
internal_links_to_redirects(pages) ==
    LET redir == redirecting_urls(pages)
        entries(p) ==
            LET ls == SetToSeq({l \in p.internal_links : l \in DOMAIN redir})
            IN [k \in 1..Len(ls) |->
                    [source |-> p.url, target |-> ls[k], final_url |-> redir[ls[k]]]]
        RECURSIVE walk(_)
        walk(k) ==
            IF k > Len(pages) THEN <<>>
            ELSE (IF pages[k].status_code = 200 THEN entries(pages[k]) ELSE <<>>)
                 \o walk(k + 1)
    IN walk(1)

\* Step 3: "Create issues"
RedirectsIssues(pages) ==
    LET long == chains_3_plus(pages)
        two == chains_2_hops(pages)
        links == internal_links_to_redirects(pages)
        has_issues == long # <<>> \/ two # <<>> \/ links # <<>>
    IN When(long # <<>>,
            create_issue("long_redirect_chains", "ERROR",
                         Take([k \in 1..Len(long) |-> long[k].start_url], AFFECTED_CAP), Len(long)))
       \o When(two # <<>>,
            create_issue("redirect_chains", "WARNING",
                         Take([k \in 1..Len(two) |-> two[k].start_url], AFFECTED_CAP), Len(two)))
       \o When(links # <<>>,
            create_issue("internal_links_to_redirects", "WARNING",
                         Take(SetToSeq({e.source : e \in Range(links)}), AFFECTED_CAP),
                         Len(links)))
       \o When(~has_issues,
            create_issue("no_redirect_issues", "SUCCESS", <<>>, 1))

RedirectsAnalyzer(pages, base_url) ==
    create_result("redirects",
                  determine_overall_severity(RedirectsIssues(pages)),
                  RedirectsIssues(pages))

-----------------------------------------------------------------------------
(* analyzers/meta_tags.py: MetaTagsAnalyzer.analyze.  A page is the record *)
(* of the fields the analyzer reads: url, status_code, title and           *)
(* meta_description; an absent title or description is the empty string.   *)

\* settings.TITLE_MIN_LENGTH .. settings.DESCRIPTION_MAX_LENGTH, scaled to
\* the sample titles and descriptions
TITLE_MIN_LENGTH == 2
TITLE_MAX_LENGTH == 3
DESCRIPTION_MIN_LENGTH == 1
DESCRIPTION_MAX_LENGTH == 2

\* urls_with_title[:5]
GROUP_CAP == 5

\* missing_titles / missing_descriptions: the 200-status pages without the field
missing(pages, field) ==
    LET sel == SelectSeq(pages, LAMBDA p : p.status_code = 200 /\ p[field] = "")
    IN [k \in 1..Len(sel) |-> sel[k].url]

\* titles / descriptions: url -> value, for the 200-status pages that have one
present(pages, field) ==
    LET sel == SelectSeq(pages, LAMBDA p : p.status_code = 200 /\ p[field] # "")
    IN [k \in 1..Len(sel) |-> <<sel[k].url, sel[k][field]>>]

\* short_titles / short_descriptions, as (url, value, length)
shorter(pages, field, min_length) ==
    LET sel == SelectSeq(present(pages, field), LAMBDA x : Len(x[2]) < min_length)
    IN [k \in 1..Len(sel) |-> <<sel[k][1], sel[k][2], Len(sel[k][2])>>]

\* long_titles / long_descriptions, as (url, value, length)
longer(pages, field, min_length, max_length) ==
    LET sel == SelectSeq(present(pages, field),
                         LAMBDA x : Len(x[2]) >= min_length /\ Len(x[2]) > max_length)
    IN [k \in 1..Len(sel) |-> <<sel[k][1], sel[k][2], Len(sel[k][2])>>]

duplicates_CountsSingles(vals) ==
    LET RECURSIVE walk(_, _)
        walk(k, seen) ==
            IF k > Len(vals) THEN <<>>
            ELSE IF vals[k][2] \in seen THEN walk(k + 1, seen)
            ELSE LET c == Cardinality({j \in 1..Len(vals) : vals[j][2] = vals[k][2]})
                 IN (IF c > 0 THEN <<<<vals[k][2], c>>>> ELSE <<>>)
                    \o walk(k + 1, seen \cup {vals[k][2]})
    IN walk(1, {})

\* Counter(vals.values()) filtered to count > 1: (value, count) in the order
\* of the first occurrence of each value
duplicates(vals) ==
    LET RECURSIVE walk(_, _)
        walk(k, seen) ==
            IF k > Len(vals) THEN <<>>
            ELSE IF vals[k][2] \in seen THEN walk(k + 1, seen)
            ELSE LET c == Cardinality({j \in 1..Len(vals) : vals[j][2] = vals[k][2]})
                 IN (IF c > 1 THEN <<<<vals[k][2], c>>>> ELSE <<>>)
                    \o walk(k + 1, seen \cup {vals[k][2]})
    IN walk(1, {})

\* dup_urls: for each duplicate group, the first GROUP_CAP urls with its value
dup_urls(vals) ==
    LET groups == duplicates(vals)
        urls_with(v) == Firsts(SelectSeq(vals, LAMBDA x : x[2] = v))
        RECURSIVE walk(_)
        walk(g) ==
            IF g > Len(groups) THEN <<>>
            ELSE Take(urls_with(groups[g][1]), GROUP_CAP) \o walk(g + 1)
    IN walk(1)

\* sum(duplicate_titles.values())
SumCountsOf(groups) ==
    LET RECURSIVE sum(_)
        sum(g) == IF g > Len(groups) THEN 0 ELSE groups[g][2] + sum(g + 1)
    IN sum(1)

titles(pages) == present(pages, "title")

descriptions(pages) == present(pages, "meta_description")

duplicate_titles(pages) == duplicates(titles(pages))

duplicate_descriptions(pages) == duplicates(descriptions(pages))

\* the issues, in the order the code appends them
MetaTagsIssues(pages) ==
    LET missing_titles == missing(pages, "title")
        missing_descriptions == missing(pages, "meta_description")
        short_titles == shorter(pages, "title", TITLE_MIN_LENGTH)
        long_titles == longer(pages, "title", TITLE_MIN_LENGTH, TITLE_MAX_LENGTH)
        short_descriptions == shorter(pages, "meta_description", DESCRIPTION_MIN_LENGTH)
        long_descriptions == longer(pages, "meta_description",
                                    DESCRIPTION_MIN_LENGTH, DESCRIPTION_MAX_LENGTH)
    IN When(missing_titles # <<>>,
            create_issue("missing_title", "ERROR",
                         Take(missing_titles, AFFECTED_CAP), Len(missing_titles)))
       \o When(missing_descriptions # <<>>,
            create_issue("missing_description", "ERROR",
                         Take(missing_descriptions, AFFECTED_CAP), Len(missing_descriptions)))
       \o When(short_titles # <<>>,
            create_issue("short_title", "WARNING",
                         Firsts(Take(short_titles, AFFECTED_CAP)), Len(short_titles)))
       \o When(long_titles # <<>>,
            create_issue("long_title", "WARNING",
                         Firsts(Take(long_titles, AFFECTED_CAP)), Len(long_titles)))
       \o When(short_descriptions # <<>>,
            create_issue("short_description", "WARNING",
                         Firsts(Take(short_descriptions, AFFECTED_CAP)),
                         Len(short_descriptions)))
       \o When(long_descriptions # <<>>,
            create_issue("long_description", "WARNING",
                         Firsts(Take(long_descriptions, AFFECTED_CAP)),
                         Len(long_descriptions)))
       \o When(duplicate_titles(pages) # <<>>,
            create_issue("duplicate_title", "ERROR",
                         Take(dup_urls(titles(pages)), AFFECTED_CAP),
                         SumCountsOf(duplicate_titles(pages))))
       \o When(duplicate_descriptions(pages) # <<>>,
            create_issue("duplicate_description", "WARNING",
                         Take(dup_urls(descriptions(pages)), AFFECTED_CAP),
                         SumCountsOf(duplicate_descriptions(pages))))

MetaTagsAnalyzer(pages, base_url) ==
    create_result("meta_tags",
                  determine_overall_severity(MetaTagsIssues(pages)),
                  MetaTagsIssues(pages))

-----------------------------------------------------------------------------
(* analyzers/speed.py: SpeedAnalyzer.analyze and _get_pagespeed_insights.  *)
(* One action is the code between two suspension points: sending a request *)
(* (session.get), receiving its outcome, asyncio.sleep.  speed.log is the   *)
(* history of the requests, outcomes and sleeps of the call.                *)

\* max_retries
max_retries == 3

\* SpeedMetrics as the analyzer reads them: the score, and the metrics
\* among fcp, lcp, cls that exceed their target
SpeedMetrics(score, slow) == [score |-> score, slow |-> slow]

\* Optional[SpeedMetrics], Optional[AnalyzerResult]: no value, or one
Nothing == <<>>

Some(x) == <<x>>

\* the frame before the call; api_key: settings.PAGESPEED_API_KEY is set
NewSpeed(api_key) ==
    [pc |-> "idle", api_key |-> api_key, strategy |-> None, attempt |-> 0,
     use_key |-> FALSE, wait_time |-> 0, errors |-> <<>>,
     mobile |-> Nothing, desktop |-> Nothing, error |-> None, log |-> <<>>,
     result |-> Nothing]

\* an entry of the history
LogEntry(ev, strategy, attempt, key, detail) ==
    [ev |-> ev, strategy |-> strategy, attempt |-> attempt, key |-> key, detail |-> detail]

\* "; ".join(errors)
Join(errors) ==
    LET RECURSIVE join(_)
        join(k) == IF k = Len(errors) THEN errors[k]
                   ELSE errors[k] \o "; " \o join(k + 1)
    IN IF errors = <<>> THEN "" ELSE join(1)

\* fetch_strategy(strategy) begins: params and use_key are set from api_key
BeginFetch(s, strategy) ==
    [s EXCEPT !.pc = "send", !.strategy = strategy, !.attempt = 0,
              !.use_key = s.api_key, !.wait_time = 0]

\* fetch_strategy returns value; after the mobile fetch comes
\* asyncio.sleep(2), after the desktop fetch the end of
\* _get_pagespeed_insights
FetchReturns(s, value) ==
    IF s.strategy = "mobile"
    THEN [s EXCEPT !.mobile = value, !.pc = "delay"]
    ELSE [s EXCEPT !.desktop = value, !.pc = "analyze",
                   !.error = IF s.errors # <<>> THEN Join(s.errors) ELSE None]

\* errors.append(...); return None
FetchFails(s, error_msg) ==
    FetchReturns([s EXCEPT !.errors = Append(@, s.strategy \o ": " \o error_msg)], Nothing)

\* await asyncio.sleep(wait_time); continue
Backoff(s, wait_time) == [s EXCEPT !.pc = "sleep", !.wait_time = wait_time]

Logged(s, ev, detail) ==
    [s EXCEPT !.log = Append(@, LogEntry(ev, s.strategy, s.attempt, s.use_key, detail))]

\* the non-200 responses tried: status, whether the body holds "Quota" or
\* "RATE_LIMIT", and the message of its JSON error (None when the body does
\* not parse)
HttpErrors ==
    {[status |-> 429, quota_text |-> FALSE, message |-> None],
     [status |-> 403, quota_text |-> TRUE, message |-> "Quota exceeded"],
     [status |-> 500, quota_text |-> FALSE, message |-> "Backend Error"]}

is_quota_error(response) == response.status = 429 \/ response.quota_text

\* the metrics tried
MetricsTried ==
    {SpeedMetrics(40, {"fcp"}), SpeedMetrics(60, {"lcp", "cls"}), SpeedMetrics(90, {})}

\* analyze is called: _get_pagespeed_insights, fetch_strategy("mobile")
SpeedAnalyze ==
    /\ speed.pc = "idle"
    /\ speed' = BeginFetch(speed, "mobile")
    /\ UNCHANGED <<pipeline_vars, severity_vars, graph_vars, api_vars>>

\* the top of the retry loop: session.get(base_api_url, params=params)
SendRequest ==
    /\ speed.pc = "send"
    /\ speed.attempt < max_retries
    /\ speed' = [Logged(speed, "request", "") EXCEPT !.pc = "recv"]
    /\ UNCHANGED <<pipeline_vars, severity_vars, graph_vars, api_vars>>

\* a 200 response: the metrics are parsed and returned
ReceiveMetrics(metrics) ==
    /\ speed.pc = "recv"
    /\ speed' = FetchReturns(Logged(speed, "ok", ""), Some(metrics))
    /\ UNCHANGED <<pipeline_vars, severity_vars, graph_vars, api_vars>>

ReceiveHttpError_KeepsKey(response) ==
    /\ speed.pc = "recv"
    /\ LET s == Logged(speed, IF is_quota_error(response) THEN "quota" ELSE "http", "")
       IN speed' =
            IF is_quota_error(response) /\ speed.attempt < max_retries - 1
            THEN Backoff(s, (speed.attempt + 1) * 5)
            ELSE FetchFails(s, IF response.message # None THEN response.message
                               ELSE "HTTP " \o ToString(response.status))
    /\ UNCHANGED <<pipeline_vars, severity_vars, graph_vars, api_vars>>

\* a response whose status is not 200
ReceiveHttpError(response) ==
    /\ speed.pc = "recv"
    /\ LET s == Logged(speed, IF is_quota_error(response) THEN "quota" ELSE "http", "")
       IN speed' =
            IF is_quota_error(response) /\ speed.attempt < max_retries - 1
            THEN IF speed.use_key
                 THEN Backoff([s EXCEPT !.use_key = FALSE], 2)
                 ELSE Backoff(s, (speed.attempt + 1) * 5)
            ELSE FetchFails(s, IF response.message # None THEN response.message
                               ELSE "HTTP " \o ToString(response.status))
    /\ UNCHANGED <<pipeline_vars, severity_vars, graph_vars, api_vars>>

\* except aiohttp.ClientError
ReceiveClientError ==
    /\ speed.pc = "recv"
    /\ LET s == Logged(speed, "network", "")
       IN speed' = IF speed.attempt < max_retries - 1
                   THEN Backoff(s, (speed.attempt + 1) * 3)
                   ELSE FetchFails(s, "Network error - ClientError")
    /\ UNCHANGED <<pipeline_vars, severity_vars, graph_vars, api_vars>>

ReceiveTimeout_AlwaysRetries ==
    /\ speed.pc = "recv"
    /\ speed' = Backoff(Logged(speed, "timeout", ""), (speed.attempt + 1) * 3)
    /\ UNCHANGED <<pipeline_vars, severity_vars, graph_vars, api_vars>>

\* except asyncio.TimeoutError
ReceiveTimeout ==
    /\ speed.pc = "recv"
    /\ LET s == Logged(speed, "timeout", "")
       IN speed' = IF speed.attempt < max_retries - 1
                   THEN Backoff(s, (speed.attempt + 1) * 3)
                   ELSE FetchFails(s, "Timeout (60s exceeded)")
    /\ UNCHANGED <<pipeline_vars, severity_vars, graph_vars, api_vars>>

\* except Exception
ReceiveException ==
    /\ speed.pc = "recv"
    /\ speed' = FetchFails(Logged(speed, "exception", ""), "ValueError")
    /\ UNCHANGED <<pipeline_vars, severity_vars, graph_vars, api_vars>>

\* asyncio.sleep(wait_time) is over; continue with the next attempt
Wake ==
    /\ speed.pc = "sleep"
    /\ speed' = [Logged(speed, "slept", ToString(speed.wait_time))
                    EXCEPT !.pc = "send", !.attempt = @ + 1, !.wait_time = 0]
    /\ UNCHANGED <<pipeline_vars, severity_vars, graph_vars, api_vars>>

InterRequestDelay_Skipped ==
    /\ speed.pc = "delay"
    /\ speed' = BeginFetch(speed, "desktop")
    /\ UNCHANGED <<pipeline_vars, severity_vars, graph_vars, api_vars>>

\* await asyncio.sleep(2) between the profiles; fetch_strategy("desktop")
InterRequestDelay ==
    /\ speed.pc = "delay"
    /\ speed' = BeginFetch([speed EXCEPT !.log = Append(@, LogEntry("delay", None, 0, FALSE, "2"))],
                           "desktop")
    /\ UNCHANGED <<pipeline_vars, severity_vars, graph_vars, api_vars>>

\* an issue of SpeedAnalyzer, with its details text
SpeedIssue(category, severity, details) ==
    create_issue(category, severity, <<>>, 1) @@ [details |-> details]

\* _analyze_metrics(metrics, targets, device)
analyze_metrics(metrics, device) ==
    When("fcp" \in metrics.slow, SpeedIssue(device \o "_fcp_slow", "WARNING", "fcp"))
    \o When("lcp" \in metrics.slow, SpeedIssue(device \o "_lcp_slow", "WARNING", "lcp"))
    \o When("cls" \in metrics.slow, SpeedIssue(device \o "_cls_high", "WARNING", "cls"))

\* the issues of one profile: its metrics issues, then the score issue
ProfileIssues(found, device) ==
    IF found = Nothing THEN <<>>
    ELSE LET metrics == found[1]
         IN analyze_metrics(metrics, device)
            \o When(metrics.score < 50,
                    SpeedIssue(device \o "_score_critical", "ERROR", "score"))
            \o When(metrics.score >= 50 /\ metrics.score < 70,
                    SpeedIssue(device \o "_score_low", "WARNING", "score"))

\* "Summary": the severity from the two scores
SpeedSeverity(mobile, desktop, issues) ==
    LET mobile_score == IF mobile # Nothing THEN mobile[1].score ELSE 0
        desktop_score == IF desktop # Nothing THEN desktop[1].score ELSE 0
    IN IF mobile_score >= 70 /\ desktop_score >= 70
       THEN IF "ERROR" \notin severities(issues) THEN "SUCCESS" ELSE "WARNING"
       ELSE IF mobile_score >= 50 \/ desktop_score >= 50 THEN "WARNING"
       ELSE "ERROR"

\* the result of analyze from what _get_pagespeed_insights returned
SpeedResult(mobile, desktop, error) ==
    IF mobile = Nothing /\ desktop = Nothing
    THEN create_result("speed", "WARNING",
             <<SpeedIssue("pagespeed_unavailable", "WARNING",
                          IF error # None /\ error # "" THEN error ELSE "unavailable")>>)
    ELSE LET issues == ProfileIssues(mobile, "mobile") \o ProfileIssues(desktop, "desktop")
         IN create_result("speed", SpeedSeverity(mobile, desktop, issues), issues)

\* _get_pagespeed_insights has returned: the issues, the screenshots (whose
\* faults are caught and logged), the summary, and analyze returns
AnalyzeResults ==
    /\ speed.pc = "analyze"
    /\ speed' = [speed EXCEPT !.pc = "done",
                              !.result = Some(SpeedResult(speed.mobile, speed.desktop, speed.error))]
    /\ UNCHANGED <<pipeline_vars, severity_vars, graph_vars, api_vars>>

InitSpeed ==
    /\ speed \in {NewSpeed(api_key) : api_key \in BOOLEAN}
    /\ audits = <<>>
    /\ audit_queues = <<>>
    /\ task = <<>>
    /\ sev_in = <<>>
    /\ sev_out = "-"
    /\ taken = <<>>
    /\ streams = <<>>
    /\ reply = NoResponse
    /\ graph = <<>>
    /\ graph_out = [analyzer |-> "-"]

NextSpeed ==
    \/ SpeedAnalyze
    \/ SendRequest
    \/ \E metrics \in MetricsTried : ReceiveMetrics(metrics)
    \/ \E response \in HttpErrors : ReceiveHttpError(response)
    \/ ReceiveClientError
    \/ ReceiveTimeout
    \/ ReceiveException
    \/ Wake
    \/ InterRequestDelay
    \/ AnalyzeResults

SpecSpeed == InitSpeed /\ [][NextSpeed]_vars

\* the event loop runs a coroutine that can continue, and every request
\* ends in a response, an error or the ClientTimeout of 60 seconds
SpecSpeedFair == SpecSpeed /\ WF_vars(NextSpeed)

-----------------------------------------------------------------------------
(* analyzers/cms.py: CMSAnalyzer.analyze.  The input is the number of CMS  *)
(* signatures that reach confidence 30 on the homepage markup.             *)

CMSIssues(detected) ==
    IF detected > 0
    THEN <<create_issue("cms_detected", "SUCCESS", <<>>, 1)>>
         \o When(detected > 1, create_issue("multiple_cms", "INFO", <<>>, 1))
    ELSE <<create_issue("cms_unknown", "INFO", <<>>, 1)>>

CMSAnalyzer(detected) ==
    create_result("cms", IF detected > 0 THEN "SUCCESS" ELSE "INFO", CMSIssues(detected))

-----------------------------------------------------------------------------
(* analyzers/favicon.py: FaviconAnalyzer.analyze.  The inputs are what the *)
(* probe of /favicon.ico and the homepage markup yield.                    *)

FaviconIssues(has_favicon_ico, has_html_favicon, has_apple_icon, has_modern_format) ==
    (IF ~has_favicon_ico /\ ~has_html_favicon
     THEN <<create_issue("missing_favicon", "ERROR", <<>>, 1)>>
     ELSE When(~has_favicon_ico, create_issue("no_favicon_ico", "WARNING", <<>>, 1)))
    \o When(~has_apple_icon, create_issue("no_apple_touch_icon", "INFO", <<>>, 1))
    \o When(has_html_favicon /\ ~has_modern_format,
            create_issue("old_favicon_format", "INFO", <<>>, 1))

\* "Summary": the severity is chosen next to the summary text
FaviconSeverity(issues) ==
    IF issues = <<>> THEN "SUCCESS"
    ELSE IF \E k \in 1..Len(issues) : issues[k].severity = "ERROR" THEN "ERROR"
    ELSE "WARNING"

FaviconAnalyzer(has_favicon_ico, has_html_favicon, has_apple_icon, has_modern_format) ==
    LET issues == FaviconIssues(has_favicon_ico, has_html_favicon,
                                has_apple_icon, has_modern_format)
    IN create_result("favicon", FaviconSeverity(issues), issues)

\* has_modern_format is found among the html favicons only
FaviconResults ==
    {FaviconAnalyzer(x[1], x[2], x[3], x[4]) :
        x \in {y \in BOOLEAN \X BOOLEAN \X BOOLEAN \X BOOLEAN : y[4] => y[2]}}

-----------------------------------------------------------------------------
(* analyzers/page_404.py: Page404Analyzer.analyze.  The inputs are what    *)
(* the probe of a nonexistent URL yields: a fault, or a status code and    *)
(* what the returned page holds.                                           *)

Page404Issues(returns_404_status, has_custom_404, has_navigation, has_search, has_home_link) ==
    When(~returns_404_status, create_issue("wrong_404_status", "ERROR", <<>>, 1))
    \o When(~has_custom_404, create_issue("no_custom_404", "ERROR", <<>>, 1))
    \o When(has_custom_404 /\ ~has_navigation,
            create_issue("404_no_navigation", "WARNING", <<>>, 1))
    \o When(has_custom_404 /\ ~has_home_link,
            create_issue("404_no_home_link", "WARNING", <<>>, 1))
    \o When(has_custom_404 /\ ~has_search,
            create_issue("404_no_search", "INFO", <<>>, 1))

\* "Summary"
Page404Severity(returns_404_status, has_custom_404, has_navigation) ==
    IF returns_404_status /\ has_custom_404 /\ has_navigation THEN "SUCCESS"
    ELSE IF ~returns_404_status \/ ~has_custom_404 THEN "ERROR"
    ELSE "WARNING"

\* the except branch of the probe
Page404CheckFailed ==
    create_result("page_404", "WARNING",
                  <<create_issue("404_check_failed", "WARNING", <<>>, 1)>>)

Page404Analyzer(status_code, has_custom_404, has_navigation, has_search, has_home_link) ==
    create_result("page_404",
                  Page404Severity(status_code = 404, has_custom_404, has_navigation),
                  Page404Issues(status_code = 404, has_custom_404, has_navigation,
                                has_search, has_home_link))

\* the page is read only when the status is 200 or 404
Page404Results ==
    {Page404CheckFailed} \cup
    {Page404Analyzer(status, custom, nav, search, home) :
        status \in {200, 404}, custom \in BOOLEAN, nav \in BOOLEAN,
        search \in BOOLEAN, home \in BOOLEAN} \cup
    {Page404Analyzer(500, FALSE, FALSE, FALSE, FALSE)}

\* the CMS signatures found: none, one, several
CMSResults == {CMSAnalyzer(detected) : detected \in 0..2}

-----------------------------------------------------------------------------
(* main.py: the audit store and the progress events *)

\* the ids start_audit may draw (uuid4 prefixes)
AuditIds == {"a1"}

\* str(request.url) of the request
BaseUrl == "h"

\* str(e) of the exceptions that escape a pipeline step
FaultMessages == {"crawl failed", "report failed"}

\* what generator.generate returns
ReportPath == "report.html"

\* the empty dict
EmptyDict == [x \in {} |-> x]

\* ProgressEvent(status=..., progress=..., stage=..., pages_crawled=...);
\* progress is the fraction num/den, kept unreduced
ProgressEvent(status, num, den, stage, pages_crawled) ==
    [status |-> status, progress |-> <<num, den>>, stage |-> stage,
     pages_crawled |-> pages_crawled]

\* AuditResult(id=..., url=..., status=AuditStatus.PENDING, ...) of start_audit;
\* the other fields take the defaults of the model class
NewAudit(audit_id, url) ==
    [id |-> audit_id, url |-> url, status |-> "PENDING",
     pages_crawled |-> 0, pages |-> <<>>, results |-> <<>>,
     total_issues |-> 0, critical_issues |-> 0, warnings |-> 0, passed_checks |-> 0,
     report_path |-> None, error_message |-> None]

\* the frame of run_audit(audit_id) when the background task is added;
\* calls, raised and exc record what happened, for the properties
NewTask ==
    [pc |-> "scheduled", pages |-> <<>>, results |-> <<>>, i |-> 0,
     calls |-> <<>>, raised |-> {}, exc |-> None]

\* the analyzers list of run_audit, in its order: the analyzers modelled here
analyzers == <<"cms", "page_404", "favicon", "structure">>

\* the URL of the k-th page the crawler yields: the seed first
UrlOf(k) == IF k = 1 THEN BaseUrl ELSE BaseUrl \o "/p" \o ToString(k)

\* the pages the crawler may yield as its k-th page
CrawlerPages(k) ==
    {PageData(UrlOf(k), 200, k - 1, links, <<UrlOf(k)>>) :
        links \in {{}, {BaseUrl}, {UrlOf(2)}}}
    \cup {PageData(UrlOf(k), 404, k - 1, {}, <<UrlOf(k)>>)}

\* what "await analyzer.analyze(pages, str(request.url))" may return
AnalyzerOutcomes(name, pages, base_url) ==
    CASE name = "cms" -> CMSResults
      [] name = "page_404" -> Page404Results
      [] name = "favicon" -> FaviconResults
      [] name = "structure" -> {StructureAnalyzer(pages, base_url)}

\* results[analyzer.name] = result
DictPut(results, result) ==
    IF \E k \in 1..Len(results) : results[k].name = result.name
    THEN [k \in 1..Len(results) |->
            IF results[k].name = result.name THEN result ELSE results[k]]
    ELSE Append(results, result)

\* the sum of issue.count over the issues of one result with a severity in sevs
RECURSIVE CountIssues(_, _)
CountIssues(issues, sevs) ==
    IF issues = <<>> THEN 0
    ELSE (IF Head(issues).severity \in sevs THEN Head(issues).count ELSE 0)
         + CountIssues(Tail(issues), sevs)

\* "Calculate totals": the sum over results.values()
RECURSIVE CountResults(_, _)
CountResults(results, sevs) ==
    IF results = <<>> THEN 0
    ELSE CountIssues(Head(results).issues, sevs) + CountResults(Tail(results), sevs)

\* sum(1 for r in results.values() if r.severity in [ERROR, WARNING])
NotPassed(results) ==
    Cardinality({k \in 1..Len(results) : results[k].severity \in {"ERROR", "WARNING"}})

\* a plausible slip: one queue, that of the first audit, used by every run
Put_FirstQueue(audit_id, events) ==
    audit_queues' = [audit_queues EXCEPT
        ![CHOOSE a \in DOMAIN audit_queues : TRUE] = @ \o events]

\* queue.put(event) on the unbounded asyncio.Queue of the audit
Put(audit_id, events) ==
    audit_queues' = [audit_queues EXCEPT ![audit_id] = @ \o events]

-----------------------------------------------------------------------------
(* main.py: start_audit and run_audit.  An action is the code between two  *)
(* points where the coroutine can be suspended: the crawler's next page,   *)
(* an analyzer's analyze, the report generator's generate.                 *)

\* POST /api/audit
start_audit(audit_id) ==
    /\ audit_id \notin DOMAIN audits
    /\ audits' = audits @@ (audit_id :> NewAudit(audit_id, BaseUrl))
    /\ audit_queues' = audit_queues @@ (audit_id :> <<>>)
    /\ task' = task @@ (audit_id :> NewTask)
    /\ UNCHANGED <<severity_vars, graph_vars, speed_vars, api_vars>>

\* run_audit: "Phase 1: Crawling", up to the first page of the crawler
BeginCrawl(audit_id) ==
    /\ audit_id \in DOMAIN task
    /\ task[audit_id].pc = "scheduled"
    /\ audits' = [audits EXCEPT ![audit_id].status = "CRAWLING"]
    /\ Put(audit_id, <<ProgressEvent("CRAWLING", 0, 1, "crawling", 0)>>)
    /\ task' = [task EXCEPT ![audit_id].pc = "crawl"]
    /\ UNCHANGED <<severity_vars, graph_vars, speed_vars, api_vars>>

\* progress = min(len(pages) / settings.MAX_PAGES * 40, 40)
CrawlProgress(n) == IF n * 40 >= 40 * MAX_PAGES THEN <<40, 1>> ELSE <<n * 40, MAX_PAGES>>

\* the crawler reports a page through progress_callback and yields it:
\* pages[page.url] = page
CrawlPage(audit_id) ==
    /\ audit_id \in DOMAIN task
    /\ task[audit_id].pc = "crawl"
    /\ Len(task[audit_id].pages) < MaxCrawl
    /\ \E page \in CrawlerPages(Len(task[audit_id].pages) + 1) :
          LET n == Len(task[audit_id].pages)
          IN /\ Put(audit_id, <<ProgressEvent("CRAWLING", CrawlProgress(n)[1],
                                              CrawlProgress(n)[2], "crawling", n)>>)
             /\ task' = [task EXCEPT ![audit_id].pages = Append(@, page)]
    /\ UNCHANGED <<audits, severity_vars, graph_vars, speed_vars, api_vars>>

\* the crawler is exhausted: the end of phase 1 and the head of
\* "Phase 2: Analysis", up to the first pass of the analyzer loop
BeginAnalysis(audit_id) ==
    /\ audit_id \in DOMAIN task
    /\ task[audit_id].pc = "crawl"
    /\ LET pages == task[audit_id].pages
       IN /\ audits' = [audits EXCEPT ![audit_id].pages_crawled = Len(pages),
                                      ![audit_id].pages = pages,
                                      ![audit_id].status = "ANALYZING"]
          /\ Put(audit_id, <<ProgressEvent("CRAWLING", 40, 1, "crawling", Len(pages)),
                             ProgressEvent("ANALYZING", 40, 1, "analyzing", Len(pages))>>)
    /\ task' = [task EXCEPT ![audit_id].pc = "analyze",
                            ![audit_id].results = <<>>,
                            ![audit_id].i = 0]
    /\ UNCHANGED <<severity_vars, graph_vars, speed_vars, api_vars>>

\* a plausible slip: the analysis stage scaled to 50 points instead of 40
CallAnalyzer_Scale50(audit_id) ==
    /\ audit_id \in DOMAIN task
    /\ task[audit_id].pc = "analyze"
    /\ task[audit_id].i < Len(analyzers)
    /\ LET i == task[audit_id].i
           n == Len(analyzers)
       IN /\ Put(audit_id, <<ProgressEvent("ANALYZING", 40 * n + (i + 1) * 50, n,
                                           "analyzing", Len(task[audit_id].pages))>>)
          /\ task' = [task EXCEPT ![audit_id].pc = "in_analyzer",
                                  ![audit_id].calls = Append(@, analyzers[i + 1])]
    /\ UNCHANGED <<audits, severity_vars, graph_vars, speed_vars, api_vars>>

\* one pass of "for i, analyzer in enumerate(analyzers)", up to the await
CallAnalyzer(audit_id) ==
    /\ audit_id \in DOMAIN task
    /\ task[audit_id].pc = "analyze"
    /\ task[audit_id].i < Len(analyzers)
    /\ LET i == task[audit_id].i
           n == Len(analyzers)
       IN /\ Put(audit_id, <<ProgressEvent("ANALYZING", 40 * n + (i + 1) * 40, n,
                                           "analyzing", Len(task[audit_id].pages))>>)
          /\ task' = [task EXCEPT ![audit_id].pc = "in_analyzer",
                                  ![audit_id].calls = Append(@, analyzers[i + 1])]
    /\ UNCHANGED <<audits, severity_vars, graph_vars, speed_vars, api_vars>>

\* a plausible slip: an analyzer that drops a page of the dict it is given
AnalyzerReturns_DropsPage(audit_id) ==
    /\ audit_id \in DOMAIN task
    /\ task[audit_id].pc = "in_analyzer"
    /\ \E result \in AnalyzerOutcomes(analyzers[task[audit_id].i + 1],
                                      task[audit_id].pages, audits[audit_id].url) :
          task' = [task EXCEPT ![audit_id].pc = "analyze",
                               ![audit_id].results = DictPut(@, result),
                               ![audit_id].i = @ + 1,
                               ![audit_id].pages =
                                   IF @ = <<>> THEN @ ELSE Tail(@)]
    /\ UNCHANGED <<audits, audit_queues, severity_vars, graph_vars, speed_vars, api_vars>>

\* analyze returns: results[analyzer.name] = result
AnalyzerReturns(audit_id) ==
    /\ audit_id \in DOMAIN task
    /\ task[audit_id].pc = "in_analyzer"
    /\ \E result \in AnalyzerOutcomes(analyzers[task[audit_id].i + 1],
                                      task[audit_id].pages, audits[audit_id].url) :
          task' = [task EXCEPT ![audit_id].pc = "analyze",
                               ![audit_id].results = DictPut(@, result),
                               ![audit_id].i = @ + 1]
    /\ UNCHANGED <<audits, audit_queues, severity_vars, graph_vars, speed_vars, api_vars>>

\* a plausible slip: the try wraps the loop, so a fault ends the loop
AnalyzerRaises_EndsLoop(audit_id) ==
    /\ audit_id \in DOMAIN task
    /\ task[audit_id].pc = "in_analyzer"
    /\ task' = [task EXCEPT ![audit_id].pc = "analyze",
                            ![audit_id].raised = @ \cup {analyzers[task[audit_id].i + 1]},
                            ![audit_id].i = Len(analyzers)]
    /\ UNCHANGED <<audits, audit_queues, severity_vars, graph_vars, speed_vars, api_vars>>

\* analyze raises: "except Exception as e" logs and goes on
AnalyzerRaises(audit_id) ==
    /\ audit_id \in DOMAIN task
    /\ task[audit_id].pc = "in_analyzer"
    /\ task' = [task EXCEPT ![audit_id].pc = "analyze",
                            ![audit_id].raised = @ \cup {analyzers[task[audit_id].i + 1]},
                            ![audit_id].i = @ + 1]
    /\ UNCHANGED <<audits, audit_queues, severity_vars, graph_vars, speed_vars, api_vars>>

\* a plausible slip: total_issues is added to in an else branch only
BeginReport_TotalInElse(audit_id) ==
    /\ audit_id \in DOMAIN task
    /\ task[audit_id].pc = "analyze"
    /\ task[audit_id].i = Len(analyzers)
    /\ LET results == task[audit_id].results
       IN audits' = [audits EXCEPT
              ![audit_id].results = results,
              ![audit_id].critical_issues = @ + CountResults(results, {"ERROR"}),
              ![audit_id].warnings = @ + CountResults(results, {"WARNING"}),
              ![audit_id].total_issues = @ + CountResults(results, {"INFO", "SUCCESS"}),
              ![audit_id].passed_checks = Len(analyzers) - NotPassed(results),
              ![audit_id].status = "GENERATING_REPORT"]
    /\ Put(audit_id, <<ProgressEvent("GENERATING_REPORT", 85, 1, "report",
                                     Len(task[audit_id].pages))>>)
    /\ task' = [task EXCEPT ![audit_id].pc = "report"]
    /\ UNCHANGED <<severity_vars, graph_vars, speed_vars, api_vars>>

\* after the loop: audit.results, "Calculate totals", passed_checks, and the
\* head of "Phase 3: Generate Report", up to the await of generate
BeginReport(audit_id) ==
    /\ audit_id \in DOMAIN task
    /\ task[audit_id].pc = "analyze"
    /\ task[audit_id].i = Len(analyzers)
    /\ LET results == task[audit_id].results
       IN audits' = [audits EXCEPT
              ![audit_id].results = results,
              ![audit_id].critical_issues = @ + CountResults(results, {"ERROR"}),
              ![audit_id].warnings = @ + CountResults(results, {"WARNING"}),
              ![audit_id].total_issues = @ + CountResults(results, SeverityLevel),
              ![audit_id].passed_checks = Len(analyzers) - NotPassed(results),
              ![audit_id].status = "GENERATING_REPORT"]
    /\ Put(audit_id, <<ProgressEvent("GENERATING_REPORT", 85, 1, "report",
                                     Len(task[audit_id].pages))>>)
    /\ task' = [task EXCEPT ![audit_id].pc = "report"]
    /\ UNCHANGED <<severity_vars, graph_vars, speed_vars, api_vars>>

\* a plausible slip: the last queue.put of the try block is left out
Complete_NoEvent(audit_id) ==
    /\ audit_id \in DOMAIN task
    /\ task[audit_id].pc = "report"
    /\ audits' = [audits EXCEPT ![audit_id].report_path = ReportPath,
                                ![audit_id].status = "COMPLETED"]
    /\ task' = [task EXCEPT ![audit_id].pc = "done"]
    /\ UNCHANGED <<audit_queues, severity_vars, graph_vars, speed_vars, api_vars>>

\* generate returns: report_path, "Complete"
Complete(audit_id) ==
    /\ audit_id \in DOMAIN task
    /\ task[audit_id].pc = "report"
    /\ audits' = [audits EXCEPT ![audit_id].report_path = ReportPath,
                                ![audit_id].status = "COMPLETED"]
    /\ Put(audit_id, <<ProgressEvent("COMPLETED", 100, 1, "complete",
                                     Len(task[audit_id].pages))>>)
    /\ task' = [task EXCEPT ![audit_id].pc = "done"]
    /\ UNCHANGED <<severity_vars, graph_vars, speed_vars, api_vars>>

\* a plausible slip: the last queue.put of the try block can raise too
FaultPoints_AfterComplete == {"crawl", "analyze", "report", "done"}

\* where an exception can escape to the handler of run_audit: the crawler
\* (its construction or its next page), the head of an analyzer pass
\* (building the analyzers, analyzer.display_name), the report generator
\* (its construction or generate)
FaultPoints == {"crawl", "analyze", "report"}

\* a plausible slip: the handler does not record str(e)
PipelineFault_NoMessage(audit_id) ==
    /\ audit_id \in DOMAIN task
    /\ task[audit_id].pc \in {"crawl", "analyze", "report"}
    /\ task[audit_id].pc = "analyze" => task[audit_id].i < Len(analyzers)
    /\ \E e \in {"crawl failed", "report failed"} :
          /\ audits' = [audits EXCEPT ![audit_id].status = "FAILED"]
          /\ task' = [task EXCEPT ![audit_id].pc = "done", ![audit_id].exc = e]
    /\ Put(audit_id, <<ProgressEvent("FAILED", 0, 1, "error", 0)>>)
    /\ UNCHANGED <<severity_vars, graph_vars, speed_vars, api_vars>>

\* "except Exception as e" of run_audit, entered from a fault point
PipelineFault(audit_id) ==
    /\ audit_id \in DOMAIN task
    /\ task[audit_id].pc \in FaultPoints
    /\ task[audit_id].pc = "analyze" => task[audit_id].i < Len(analyzers)
    /\ \E e \in FaultMessages :
          /\ audits' = [audits EXCEPT ![audit_id].status = "FAILED",
                                      ![audit_id].error_message = e]
          /\ task' = [task EXCEPT ![audit_id].pc = "done", ![audit_id].exc = e]
    /\ Put(audit_id, <<ProgressEvent("FAILED", 0, 1, "error", 0)>>)
    /\ UNCHANGED <<severity_vars, graph_vars, speed_vars, api_vars>>

Init ==
    /\ audits = EmptyDict
    /\ audit_queues = EmptyDict
    /\ task = EmptyDict
    /\ sev_in = <<>>
    /\ sev_out = "-"
    /\ taken = <<>>
    /\ streams = <<>>
    /\ reply = NoResponse
    /\ speed = NewSpeed(FALSE)
    /\ graph = <<>>
    /\ graph_out = [analyzer |-> "-"]

\* a step of the audit audit_id: its request, or a step of its background task
RunStep(audit_id) ==
    \/ start_audit(audit_id)
    \/ BeginCrawl(audit_id)
    \/ CrawlPage(audit_id)
    \/ BeginAnalysis(audit_id)
    \/ CallAnalyzer(audit_id)
    \/ AnalyzerReturns(audit_id)
    \/ AnalyzerRaises(audit_id)
    \/ BeginReport(audit_id)
    \/ Complete(audit_id)
    \/ PipelineFault(audit_id)

Next == \E audit_id \in AuditIds : RunStep(audit_id)

Spec == Init /\ [][Next]_vars

-----------------------------------------------------------------------------
(* main.py: the HTTP handlers that read an audit: audit_status with its    *)
(* event_generator, get_audit and download_report.  The asyncio.Queue of   *)
(* an audit is audit_queues[audit_id] without its first taken[audit_id]    *)
(* events: queue.get() hands out the events in the order they were put.    *)

\* the event_generator instances that may be opened
StreamIds == {"s1", "s2"}

\* the format parameter of download_report, lower-cased
Formats == {"html", "pdf", "docx", "txt"}

\* how many events of the queue of an audit were taken
Taken(audit_id) == IF audit_id \in DOMAIN taken THEN taken[audit_id] ELSE 0

\* queue.qsize(): the events put and not yet taken
qsize(audit_id) == Len(audit_queues[audit_id]) - Taken(audit_id)

\* what event_generator yields: a progress event, or a keepalive
Relayed(event) == [event |-> "progress", data |-> event]

Ping == [event |-> "ping"]

\* the number of keepalives a stream has sent
Pings(stream) == Cardinality({k \in 1..Len(stream.relayed) : stream.relayed[k] = Ping})

\* GET /api/audit/{audit_id}/status for a known audit: the generator starts
audit_status(stream_id, audit_id) ==
    /\ stream_id \notin DOMAIN streams
    /\ audit_id \in DOMAIN audits
    /\ audit_id \in DOMAIN audit_queues
    /\ streams' = streams @@
          (stream_id :> [audit_id |-> audit_id, relayed |-> <<>>, open |-> TRUE,
                         tick |-> FALSE])
    /\ UNCHANGED <<pipeline_vars, taken, reply, severity_vars, graph_vars, speed_vars>>

StreamRelay_NeverBreaks(stream_id) ==
    /\ stream_id \in DOMAIN streams
    /\ streams[stream_id].open
    /\ LET audit_id == streams[stream_id].audit_id
           event == audit_queues[audit_id][Taken(audit_id) + 1]
       IN /\ qsize(audit_id) > 0
          /\ taken' = [a \in DOMAIN taken \cup {audit_id} |->
                          IF a = audit_id THEN Taken(a) + 1 ELSE taken[a]]
          /\ streams' = [streams EXCEPT ![stream_id].relayed = Append(@, Relayed(event))]
    /\ UNCHANGED <<pipeline_vars, reply, severity_vars, graph_vars, speed_vars>>

\* queue.get() returns an event within the timeout: it is yielded, and the
\* loop ends when its status is COMPLETED or FAILED
StreamRelay(stream_id) ==
    /\ stream_id \in DOMAIN streams
    /\ streams[stream_id].open
    /\ LET audit_id == streams[stream_id].audit_id
           event == audit_queues[audit_id][Taken(audit_id) + 1]
       IN /\ qsize(audit_id) > 0
          /\ taken' = [a \in DOMAIN taken \cup {audit_id} |->
                          IF a = audit_id THEN Taken(a) + 1 ELSE taken[a]]
          /\ streams' = [streams EXCEPT
                ![stream_id].relayed = Append(@, Relayed(event)),
                ![stream_id].open = event.status \notin {"COMPLETED", "FAILED"}]
    /\ UNCHANGED <<pipeline_vars, reply, severity_vars, graph_vars, speed_vars>>

\* asyncio.TimeoutError: no event within 300 seconds, a keepalive is
\* yielded.  The first MaxPings keepalives of a stream are kept in relayed;
\* of the later ones only the parity is kept, in tick.
StreamTimeout(stream_id) ==
    /\ stream_id \in DOMAIN streams
    /\ streams[stream_id].open
    /\ qsize(streams[stream_id].audit_id) = 0
    /\ streams' = IF Pings(streams[stream_id]) < MaxPings
                  THEN [streams EXCEPT ![stream_id].relayed = Append(@, Ping)]
                  ELSE [streams EXCEPT ![stream_id].tick = ~@]
    /\ UNCHANGED <<pipeline_vars, taken, reply, severity_vars, graph_vars, speed_vars>>

\* GET /api/audit/{audit_id}: the body of the response for a known audit
get_audit(audit_id) ==
    [id |-> audits[audit_id].id, url |-> audits[audit_id].url,
     status |-> audits[audit_id].status,
     pages_crawled |-> audits[audit_id].pages_crawled,
     total_issues |-> audits[audit_id].total_issues,
     report_path |-> audits[audit_id].report_path]

\* HTTPException(status_code=..., detail=...)
HTTPException(status_code, detail) == [status_code |-> status_code, detail |-> detail]

\* FileResponse(path, ...)
FileResponse(path) == [status_code |-> 200, detail |-> path]

download_response_AnyStatus(audit_id, format, file_exists, importable) ==
    IF audit_id \notin DOMAIN audits THEN HTTPException(404, "Audit not found")
    ELSE IF format = "html"
    THEN IF audits[audit_id].report_path = None \/ ~file_exists
         THEN HTTPException(404, "Report not found")
         ELSE FileResponse(audits[audit_id].report_path)
    ELSE IF format \in {"pdf", "docx"}
    THEN IF ~importable THEN HTTPException(500, "ImportError")
         ELSE FileResponse("report." \o format)
    ELSE HTTPException(400, "Unsupported format")

\* the response of download_report; file_exists: the report file is on
\* disk, importable: the converter of generate_pdf / generate_docx loads
download_response(audit_id, format, file_exists, importable) ==
    IF audit_id \notin DOMAIN audits THEN HTTPException(404, "Audit not found")
    ELSE IF audits[audit_id].status # "COMPLETED"
    THEN HTTPException(400, "Audit not completed yet")
    ELSE IF format = "html"
    THEN IF audits[audit_id].report_path = None \/ ~file_exists
         THEN HTTPException(404, "Report not found")
         ELSE FileResponse(audits[audit_id].report_path)
    ELSE IF format \in {"pdf", "docx"}
    THEN IF ~importable THEN HTTPException(500, "ImportError")
         ELSE FileResponse("report." \o format)
    ELSE HTTPException(400, "Unsupported format")

\* GET /api/audit/{audit_id}/download?format=...
download_report(audit_id, format) ==
    /\ \E file_exists \in BOOLEAN, importable \in BOOLEAN :
          reply' = download_response(audit_id, format, file_exists, importable)
                      @@ [audit_id |-> audit_id, format |-> format]
    /\ UNCHANGED <<pipeline_vars, taken, streams, severity_vars, graph_vars, speed_vars>>

\* the site and the faults of the runs with the handlers: every page is
\* fetched with status 200 and has no links, the probes of cms, page_404
\* and favicon find everything in place, and a fault carries one message
PlainRun(audit_id) ==
    /\ \A k \in 1..Len(task[audit_id].pages) :
          task[audit_id].pages[k] = PageData(UrlOf(k), 200, k - 1, {}, <<UrlOf(k)>>)
    /\ \A k \in 1..Len(task[audit_id].results) :
          \/ task[audit_id].results[k].name = "structure"
          \/ task[audit_id].results[k] \in
                {CMSAnalyzer(1), Page404Analyzer(404, TRUE, TRUE, TRUE, TRUE),
                 FaviconAnalyzer(TRUE, TRUE, TRUE, TRUE)}
    /\ task[audit_id].exc \in {None, "crawl failed"}

PlainRuns == \A audit_id \in DOMAIN task : PlainRun(audit_id)

\* a step of run_audit on such a site
PlainStep(audit_id) ==
    \/ start_audit(audit_id)
    \/ BeginCrawl(audit_id)
    \/ CrawlPage(audit_id) /\ PlainRuns'
    \/ BeginAnalysis(audit_id)
    \/ CallAnalyzer(audit_id)
    \/ AnalyzerReturns(audit_id) /\ PlainRuns'
    \/ AnalyzerRaises(audit_id)
    \/ BeginReport(audit_id)
    \/ Complete(audit_id)
    \/ PipelineFault(audit_id) /\ PlainRuns'

\* the clients of the runs with streams: one opens its stream at any
\* moment, the other once the run has ended and at most MaxBacklog events
\* wait in the queue
LateClient(audit_id) ==
    /\ audits[audit_id].status \in {"COMPLETED", "FAILED"}
    /\ qsize(audit_id) <= MaxBacklog

NextApi ==
    \/ \E audit_id \in AuditIds : PlainStep(audit_id)
    \/ \E audit_id \in AuditIds : audit_status("s1", audit_id)
    \/ \E audit_id \in AuditIds : audit_status("s2", audit_id) /\ LateClient(audit_id)
    \/ \E stream_id \in StreamIds : StreamRelay(stream_id)
    \/ \E stream_id \in StreamIds : StreamTimeout(stream_id)

SpecApi == Init /\ [][NextApi]_vars

\* one audit, and download_report called at any moment for any audit id
NextDownload ==
    \/ \E audit_id \in AuditIds : PlainStep(audit_id)
    \/ \E audit_id \in AuditIds \cup {"unknown"}, format \in Formats :
          download_report(audit_id, format)

SpecDownload == Init /\ [][NextDownload]_vars

\* the event loop runs every coroutine that can continue: the background
\* task, and each generator whose queue.get() returned or timed out
SpecApiFair ==
    /\ SpecApi
    /\ WF_vars(\E audit_id \in AuditIds : PlainStep(audit_id))
    /\ \A stream_id \in StreamIds :
          WF_vars(StreamRelay(stream_id)) /\ WF_vars(StreamTimeout(stream_id))

-----------------------------------------------------------------------------
(* Two audits started and run in any interleaving (specification SpecTwo) *)

\* the ids of the two audits
TwoAuditIds == {"a1", "a2"}

NextTwo == \E audit_id \in TwoAuditIds : PlainStep(audit_id)

SpecTwo == Init /\ [][NextTwo]_vars

-----------------------------------------------------------------------------
(* _determine_overall_severity on its own: every issue list of at most     *)
(* MaxIssues issues is handed to it once.                                  *)

\* the sequences over S of length at most n
SeqUpTo(S, n) == UNION {[1..k -> S] : k \in 0..n}

\* the issue lists tried: any severities in any order
IssueLists ==
    {[k \in 1..Len(sevs) |-> create_issue("c", sevs[k], <<>>, 1)] :
        sevs \in SeqUpTo(SeverityLevel, MaxIssues)}

InitSeverity ==
    /\ sev_in \in IssueLists
    /\ sev_out = "-"
    /\ taken = <<>>
    /\ streams = <<>>
    /\ reply = NoResponse
    /\ speed = NewSpeed(FALSE)
    /\ audits = EmptyDict
    /\ audit_queues = EmptyDict
    /\ task = EmptyDict
    /\ graph = <<>>
    /\ graph_out = [analyzer |-> "-"]

\* severity = self._determine_overall_severity(issues)
Determine ==
    /\ sev_out = "-"
    /\ sev_out' = determine_overall_severity(sev_in)
    /\ UNCHANGED <<sev_in, pipeline_vars, graph_vars, speed_vars, api_vars>>

NextSeverity == Determine

SpecSeverity == InitSeverity /\ [][NextSeverity]_vars

-----------------------------------------------------------------------------
(* The operations of the analyzers that raise outside their domain, each   *)
(* under the guard the code puts before it.                                *)

\* max(keys): ValueError on no keys
max_raises(keys) == keys = {}

\* lst[0], lst[-1]: IndexError on an empty list
index_raises(lst) == lst = <<>>

\* obj.attribute: AttributeError when obj is None
attr_raises(obj) == obj = Nothing

\* pages.get(url)
pages_get(pages, url) == IF url \in Keys(pages) THEN Some(Get(pages, url)) ELSE Nothing

max_depth_raises_Unguarded(pages) == max_raises(DOMAIN depth_distribution(pages))

\* structure.py: max(depth_distribution.keys()) if depth_distribution else 0
max_depth_raises(pages) ==
    LET keys == DOMAIN depth_distribution(pages)
    IN keys # {} /\ max_raises(keys)

\* structure.py: the table of depths reads urls[0] "if urls", the table of
\* orphans reads page.title of page = pages.get(url) "if page"
structure_raises(pages, base_url) ==
    LET dist == depth_distribution(pages)
        orphans == Take(orphan_pages(pages, base_url), 15)
    IN \/ max_depth_raises(pages)
       \/ \E d \in DOMAIN dist : dist[d] # <<>> /\ index_raises(dist[d])
       \/ \E k \in 1..Len(orphans) :
             LET page == pages_get(pages, orphans[k])
             IN page # Nothing /\ attr_raises(page)

\* redirects.py: redirect_chain[0] and redirect_chain[-1] are read when
\* len(redirect_chain) >= 2
redirects_raises(pages) ==
    \E k \in 1..Len(pages) :
        Len(pages[k].redirect_chain) >= 2 /\ index_raises(pages[k].redirect_chain)

\* cms.py: home_page = pages.get(base_url) or pages.get(base_url + "/"),
\* else the first 200-status page with markup; with_html: the URLs of the
\* pages whose html_content is not empty
cms_home_page(pages, base_url, with_html) ==
    IF pages_get(pages, base_url) # Nothing THEN pages_get(pages, base_url)
    ELSE IF pages_get(pages, base_url \o "/") # Nothing
    THEN pages_get(pages, base_url \o "/")
    ELSE LET sel == SelectSeq(pages, LAMBDA p : p.status_code = 200 /\ p.url \in with_html)
         IN IF sel = <<>> THEN Nothing ELSE Some(sel[1])

\* cms.py: html_content = home_page.html_content if home_page else ""
cms_raises(pages, base_url, with_html) ==
    LET home_page == cms_home_page(pages, base_url, with_html)
    IN home_page # Nothing /\ attr_raises(home_page)

-----------------------------------------------------------------------------
(* The structural analyzers on their own: every page graph of the sample   *)
(* is handed to StructureAnalyzer.analyze and to RedirectsAnalyzer.analyze *)
(* with BaseUrl as base_url.                                               *)

\* the URLs a redirect passes through before the last: r1, r2, ...
Hops(k) == [j \in 1..k |-> "r" \o ToString(j)]

\* the redirect chains that end at url: no redirect, or 1 .. MaxChain - 1 hops
ChainsTo(url) == {Hops(k) \o <<url>> : k \in 0..(MaxChain - 1)}

\* the depths tried: within the click depth, beyond it, beyond 5
Depths == {1, MAX_CLICK_DEPTH + 1, VERY_DEEP + 1}

\* the homepage record, stored under the seed URL or under the seed URL
\* with a trailing slash
HomePages ==
    {PageData(url, 200, 0, links, <<url>>) :
        url \in {BaseUrl, BaseUrl \o "/"}, links \in SUBSET {BaseUrl, "a", "b"}}
    \cup {PageData(url, 404, 0, links, <<url>>) :
        url \in {BaseUrl, BaseUrl \o "/"}, links \in {{}, {"a"}}}

\* an inner page, with its links and depth varied
InnerPages(url) ==
    {PageData(url, 200, d, links, <<url>>) :
        d \in Depths, links \in SUBSET {BaseUrl, "a", "b"}}
    \cup {PageData(url, 404, d, links, <<url>>) :
        d \in Depths, links \in {{}, {"a"}}}

\* an inner page reached through a redirect chain, with its links varied:
\* to the pages and to the URL r1 that redirects
RedirectedPages(url) ==
    {PageData(url, 200, 1, links, chain) :
        links \in SUBSET {"a", "b", "r1"}, chain \in ChainsTo(url)}
    \cup {PageData(url, 404, 1, {}, chain) : chain \in ChainsTo(url)}

\* zero or one page of a set, as a dict
Optional(S) == {<<>>} \cup {<<p>> : p \in S}

\* the page graphs tried
Graphs ==
    {h \o a \o b : h \in Optional(HomePages), a \in Optional(InnerPages("a")),
                   b \in Optional(InnerPages("b"))}
    \cup {a \o b : a \in Optional(RedirectedPages("a")),
                   b \in Optional(RedirectedPages("b"))}

InitGraph ==
    /\ graph \in Graphs
    /\ graph_out = [analyzer |-> "-"]
    /\ audits = EmptyDict
    /\ audit_queues = EmptyDict
    /\ task = EmptyDict
    /\ sev_in = <<>>
    /\ sev_out = "-"
    /\ taken = <<>>
    /\ streams = <<>>
    /\ reply = NoResponse
    /\ speed = NewSpeed(FALSE)

\* await StructureAnalyzer().analyze(pages, base_url), with its worklists
RunStructure ==
    /\ graph_out.analyzer = "-"
    /\ graph_out' = [analyzer |-> "structure",
                     orphan_pages |-> orphan_pages(graph, BaseUrl),
                     depth_distribution |-> depth_distribution(graph),
                     deep_pages |-> deep_pages(graph),
                     pages_with_few_links |-> pages_with_few_links(graph),
                     raised |-> structure_raises(graph, BaseUrl),
                     result |-> StructureAnalyzer(graph, BaseUrl)]
    /\ UNCHANGED <<graph, pipeline_vars, severity_vars, speed_vars, api_vars>>

\* await RedirectsAnalyzer().analyze(pages, base_url), with its worklists
RunRedirects ==
    /\ graph_out.analyzer = "-"
    /\ graph_out' = [analyzer |-> "redirects",
                     internal_links_to_redirects |-> internal_links_to_redirects(graph),
                     total_redirects |-> Len(all_chains(graph)),
                     chains_2_hops |-> Len(chains_2_hops(graph)),
                     chains_3_plus |-> Len(chains_3_plus(graph)),
                     raised |-> redirects_raises(graph),
                     result |-> RedirectsAnalyzer(graph, BaseUrl)]
    /\ UNCHANGED <<graph, pipeline_vars, severity_vars, speed_vars, api_vars>>

\* the head of CMSAnalyzer().analyze(pages, base_url): the homepage lookup
RunCMSLookup ==
    /\ graph_out.analyzer = "-"
    /\ \E with_html \in SUBSET Keys(graph) :
          graph_out' = [analyzer |-> "cms",
                        home_page |-> cms_home_page(graph, BaseUrl, with_html),
                        raised |-> cms_raises(graph, BaseUrl, with_html)]
    /\ UNCHANGED <<graph, pipeline_vars, severity_vars, speed_vars, api_vars>>

NextGraph == RunStructure \/ RunRedirects \/ RunCMSLookup

SpecGraph == InitGraph /\ [][NextGraph]_vars

-----------------------------------------------------------------------------
(* MetaTagsAnalyzer on sampled pages (specification SpecMeta).  graph is    *)
(* the pages dict handed to the analyzer, graph_out what it computed.       *)

\* the k-th URL
PageUrl(k) == "p" \o ToString(k)

\* the title and description variants of one page: no title, a short
\* title, a title of accepted length, a long title without a description,
\* and a page with the short title that was not fetched with status 200
MetaVariants ==
    {<<200, "", "D">>, <<200, "X", "D">>, <<200, "YY", "D">>, <<200, "WWWW", "">>,
     <<404, "X", "D">>}

MetaPage(url, v) ==
    [url |-> url, status_code |-> v[1], title |-> v[2], meta_description |-> v[3]]

\* the page dicts tried: up to MaxMetaPages pages, each of any variant
InitMeta ==
    /\ \E n \in 0..MaxMetaPages :
          \E vs \in [1..n -> MetaVariants] :
              graph = [k \in 1..n |-> MetaPage(PageUrl(k), vs[k])]
    /\ graph_out = [analyzer |-> "-"]
    /\ audits = EmptyDict
    /\ audit_queues = EmptyDict
    /\ task = EmptyDict
    /\ sev_in = <<>>
    /\ sev_out = "-"
    /\ taken = <<>>
    /\ streams = <<>>
    /\ reply = NoResponse
    /\ speed = NewSpeed(FALSE)

\* await MetaTagsAnalyzer().analyze(pages, base_url), with its worklists
RunMetaTags ==
    /\ graph_out.analyzer = "-"
    /\ graph_out' = [analyzer |-> "meta_tags",
                     titles |-> titles(graph),
                     duplicate_titles |-> duplicate_titles(graph),
                     duplicate_descriptions |-> duplicate_descriptions(graph),
                     result |-> MetaTagsAnalyzer(graph, BaseUrl)]
    /\ UNCHANGED <<graph, pipeline_vars, severity_vars, speed_vars, api_vars>>

NextMeta == RunMetaTags

SpecMeta == InitMeta /\ [][NextMeta]_vars

-----------------------------------------------------------------------------
(* analyzers/content_sections.py: ContentSectionsAnalyzer.analyze, on its  *)
(* own (specification SpecSections).  A page is given by what the analyzer *)
(* reads off it: its status, whether its URL matches a blog or a FAQ       *)
(* pattern, and whether its markup holds <details> with <summary>, a       *)
(* FAQPage schema, dates, categories, an author.                           *)

\* the pages tried, without their URL
SectionVariants ==
    {[status_code |-> 200, blog |-> FALSE, faq |-> FALSE, faq_structure |-> FALSE,
      faq_schema |-> FALSE, indicators |-> {}],
     [status_code |-> 200, blog |-> TRUE, faq |-> FALSE, faq_structure |-> FALSE,
      faq_schema |-> FALSE, indicators |-> {"has_dates", "has_categories", "has_author"}],
     [status_code |-> 200, blog |-> TRUE, faq |-> FALSE, faq_structure |-> FALSE,
      faq_schema |-> FALSE, indicators |-> {"has_dates"}],
     [status_code |-> 200, blog |-> FALSE, faq |-> TRUE, faq_structure |-> FALSE,
      faq_schema |-> FALSE, indicators |-> {}],
     [status_code |-> 200, blog |-> FALSE, faq |-> FALSE, faq_structure |-> TRUE,
      faq_schema |-> TRUE, indicators |-> {}],
     [status_code |-> 200, blog |-> FALSE, faq |-> FALSE, faq_structure |-> FALSE,
      faq_schema |-> TRUE, indicators |-> {}],
     [status_code |-> 404, blog |-> FALSE, faq |-> TRUE, faq_structure |-> TRUE,
      faq_schema |-> TRUE, indicators |-> {}]}

\* the loop over the pages and "Create issues"
ContentSectionsIssues(pages) ==
    LET ok == SelectSeq(pages, LAMBDA p : p.status_code = 200)
        urls(sel) == [k \in 1..Len(sel) |-> sel[k].url]
        blog_pages == urls(SelectSeq(ok, LAMBDA p : p.blog))
        faq_pages == urls(SelectSeq(ok, LAMBDA p : p.faq))
        pages_with_faq_structure == urls(SelectSeq(ok, LAMBDA p : p.faq_structure))
        pages_with_schema_faq == urls(SelectSeq(ok, LAMBDA p : p.faq_schema))
        blog_indicators ==
            UNION {ok[k].indicators : k \in {j \in 1..Len(ok) : ok[j].blog}}
        has_blog == Len(blog_pages) > 0
        has_faq == Len(faq_pages) > 0 \/ Len(pages_with_faq_structure) > 0
        faq_set == Range(faq_pages) \cup Range(pages_with_faq_structure)
    IN (IF has_blog
        THEN <<create_issue("blog_detected", "SUCCESS",
                            Take(blog_pages, 10), Len(blog_pages))>>
             \o When({"has_dates", "has_categories", "has_author"} \ blog_indicators # {},
                     create_issue("blog_missing_features", "INFO", <<>>, 1))
        ELSE <<create_issue("no_blog", "INFO", <<>>, 1)>>)
       \o (IF has_faq
           THEN <<create_issue("faq_detected", "SUCCESS",
                               Take(SetToSeq(faq_set), 10), Cardinality(faq_set))>>
                \o (IF pages_with_schema_faq = <<>>
                    THEN <<create_issue("faq_no_schema", "WARNING", <<>>, 1)>>
                    ELSE <<create_issue("faq_has_schema", "SUCCESS",
                                        Take(pages_with_schema_faq, 5), 1)>>)
           ELSE <<create_issue("no_faq", "INFO", <<>>, 1)>>)

\* the result: SUCCESS when a blog or a FAQ was found, INFO otherwise
ContentSectionsAnalyzer(pages) ==
    create_result("content_sections",
                  IF \E k \in 1..Len(pages) :
                        /\ pages[k].status_code = 200
                        /\ pages[k].blog \/ pages[k].faq \/ pages[k].faq_structure
                  THEN "SUCCESS" ELSE "INFO",
                  ContentSectionsIssues(pages))

\* the page dicts tried: up to MaxSectionPages pages, each of any variant
InitSections ==
    /\ \E n \in 0..MaxSectionPages :
          \E vs \in [1..n -> SectionVariants] :
              graph = [k \in 1..n |-> vs[k] @@ [url |-> PageUrl(k)]]
    /\ graph_out = [analyzer |-> "-"]
    /\ audits = EmptyDict
    /\ audit_queues = EmptyDict
    /\ task = EmptyDict
    /\ sev_in = <<>>
    /\ sev_out = "-"
    /\ taken = <<>>
    /\ streams = <<>>
    /\ reply = NoResponse
    /\ speed = NewSpeed(FALSE)

\* await ContentSectionsAnalyzer().analyze(pages, base_url)
RunContentSections ==
    /\ graph_out.analyzer = "-"
    /\ graph_out' = [analyzer |-> "content_sections",
                     result |-> ContentSectionsAnalyzer(graph)]
    /\ UNCHANGED <<graph, pipeline_vars, severity_vars, speed_vars, api_vars>>

NextSections == RunContentSections

SpecSections == InitSections /\ [][NextSections]_vars

-----------------------------------------------------------------------------
(* Properties of the audit pipeline (specification Spec) *)

NonTerminal == {"PENDING", "CRAWLING", "ANALYZING", "GENERATING_REPORT"}

\* the status steps of the state machine
StatusSteps ==
    {<<"PENDING", "CRAWLING">>, <<"CRAWLING", "ANALYZING">>,
     <<"ANALYZING", "GENERATING_REPORT">>, <<"GENERATING_REPORT", "COMPLETED">>}
    \cup (NonTerminal \X {"FAILED"})

\* C1: an audit is created PENDING and its status changes only by
\* PENDING -> CRAWLING -> ANALYZING -> GENERATING_REPORT -> COMPLETED or from
\* a non-terminal status to FAILED; nothing leaves COMPLETED or FAILED.
C1_StatusStateMachine ==
    [][/\ \A a \in DOMAIN audits' \ DOMAIN audits : audits'[a].status = "PENDING"
       /\ \A a \in DOMAIN audits :
             /\ a \in DOMAIN audits'
             /\ \/ audits'[a].status = audits[a].status
                \/ <<audits[a].status, audits'[a].status>> \in StatusSteps]_vars

\* C1: an audit ran through every stage and completed
C1_Witness ==
    \E a \in DOMAIN audits :
        audits[a].status = "COMPLETED" /\ Len(task[a].calls) = Len(analyzers)

\* the last event put on the queue of an audit
LastEvent(a) == audit_queues[a][Len(audit_queues[a])]

\* C2: when a step outside the per-analyzer isolation raises, the audit is
\* FAILED, error_message is the fault's message and the last event of the
\* queue is a FAILED event; and once FAILED the run is over: no later step
\* changes the audit, its queue or the task (no later stage, no retry).
C2_PipelineFaultIsFatal ==
    /\ [](\A a \in DOMAIN audits :
            /\ task[a].exc # None <=> audits[a].status = "FAILED"
            /\ task[a].exc # None =>
                  /\ audits[a].error_message = task[a].exc
                  /\ audit_queues[a] # <<>>
                  /\ LastEvent(a).status = "FAILED"
                  /\ task[a].pc = "done")
    /\ [][\A a \in DOMAIN audits :
            audits[a].status = "FAILED" =>
                /\ audits'[a] = audits[a]
                /\ audit_queues'[a] = audit_queues[a]
                /\ task'[a] = task[a]]_vars

\* C2: the report generator raised after a complete analysis
C2_Witness ==
    \E a \in DOMAIN audits :
        /\ audits[a].status = "FAILED"
        /\ audits[a].error_message = "report failed"
        /\ Len(audits[a].results) = Len(analyzers)

\* the analyzers of the list that did not raise, in the order of the list
Survivors(raised) == SelectSeq(analyzers, LAMBDA name : name \notin raised)

\* C3: an analyzer's fault is caught: the step that catches it leaves the
\* status and the results alone and goes on to the next analyzer; when the
\* loop is over every analyzer was called once in the order of the list, the
\* results hold exactly the analyzers that did not raise, in that order; and
\* the step after the loop takes the audit to GENERATING_REPORT.
C3_AnalyzerFaultIsolated ==
    /\ [](\A a \in DOMAIN audits :
            /\ task[a].raised # {} => task[a].exc = None \/ audits[a].status = "FAILED"
            /\ (task[a].pc = "analyze" /\ task[a].i = Len(analyzers)) \/ task[a].pc = "report" =>
                  /\ task[a].calls = analyzers
                  /\ [k \in 1..Len(task[a].results) |-> task[a].results[k].name] = Survivors(task[a].raised))
    /\ [][\A a \in DOMAIN audits :
            /\ task'[a].raised # task[a].raised =>
                  /\ audits'[a] = audits[a]
                  /\ task'[a].results = task[a].results
                  /\ task'[a].pc = "analyze"
                  /\ task'[a].i = task[a].i + 1
            /\ (task[a].pc = "analyze" /\ task[a].i = Len(analyzers) /\ task'[a] # task[a]) =>
                  audits'[a].status = "GENERATING_REPORT"]_vars

\* C3: the second analyzer raised, the later ones were recorded and the
\* audit is generating its report
C3_Witness ==
    \E a \in DOMAIN audits :
        /\ audits[a].status = "GENERATING_REPORT"
        /\ task[a].raised = {"page_404"}
        /\ [k \in 1..Len(audits[a].results) |-> audits[a].results[k].name] = <<"cms", "favicon", "structure">>

\* the stage the task is in, by its position in run_audit
StageOf(pc) ==
    CASE pc = "scheduled" -> {"PENDING"}
      [] pc = "crawl" -> {"CRAWLING"}
      [] pc \in {"analyze", "in_analyzer"} -> {"ANALYZING"}
      [] pc = "report" -> {"GENERATING_REPORT"}
      [] pc = "done" -> {"COMPLETED", "FAILED"}

\* C4: the stages do not overlap and the graph is frozen during analysis:
\* the task is in the one stage the status names; the pages dict changes only
\* while CRAWLING and before any analyzer is called; while an analyzer runs
\* and from then on the dict it was given is left as it is; and the report
\* is generated only after every analyzer was called and has come back.
C4_StagesSequentialGraphFrozen ==
    /\ [](\A a \in DOMAIN audits :
            /\ audits[a].status \in StageOf(task[a].pc)
            /\ task[a].calls # <<>> => audits[a].pages = task[a].pages
            /\ task[a].pc = "report" =>
                  /\ Len(task[a].calls) = Len(analyzers)
                  /\ task[a].i = Len(analyzers))
    /\ [][\A a \in DOMAIN audits :
            /\ task'[a].pages # task[a].pages =>
                  /\ audits[a].status = "CRAWLING"
                  /\ audits'[a].status = "CRAWLING"
                  /\ task[a].calls = <<>>
            /\ task[a].pc = "in_analyzer" =>
                  /\ task'[a].pages = task[a].pages
                  /\ audits'[a].pages = audits[a].pages]_vars

\* C4: a report is being generated from a graph of MaxCrawl pages
C4_Witness ==
    \E a \in DOMAIN audits :
        /\ task[a].pc = "report"
        /\ Len(audits[a].pages) = MaxCrawl
        /\ Len(audits[a].results) = Len(analyzers)

-----------------------------------------------------------------------------
(* Properties of the severity aggregation *)

\* the aggregation rule ERROR > WARNING > INFO > SUCCESS, as the
\* specification words it
Aggregate(issues) ==
    IF \E k \in 1..Len(issues) : issues[k].severity = "ERROR" THEN "ERROR"
    ELSE IF \E k \in 1..Len(issues) : issues[k].severity = "WARNING" THEN "WARNING"
    ELSE IF \E k \in 1..Len(issues) : issues[k].severity = "INFO" THEN "INFO"
    ELSE "SUCCESS"

\* lst with x put at position pos (1 .. Len(lst) + 1)
InsertAt(lst, pos, x) ==
    SubSeq(lst, 1, pos - 1) \o <<x>> \o SubSeq(lst, pos, Len(lst))

\* lst walked in the order perm
Permuted(lst, perm) == [k \in 1..Len(lst) |-> lst[perm[k]]]

\* C5 (SpecSeverity): _determine_overall_severity returns ERROR if any issue
\* is ERROR, else WARNING if any is WARNING, else INFO if any is INFO, else
\* SUCCESS; every reordering of the list gives the same result; and with one
\* ERROR issue put in at any position the result is ERROR.
C5_SeverityAggregation ==
    sev_out # "-" =>
        /\ sev_out = Aggregate(sev_in)
        /\ \A perm \in Permutations(1..Len(sev_in)) :
              determine_overall_severity(Permuted(sev_in, perm)) = sev_out
        /\ \A pos \in 1..(Len(sev_in) + 1) :
              determine_overall_severity(
                  InsertAt(sev_in, pos, create_issue("c", "ERROR", <<>>, 1))) = "ERROR"

\* C5: the list [INFO, WARNING] was aggregated to WARNING
C5_Witness ==
    /\ [k \in 1..Len(sev_in) |-> sev_in[k].severity] = <<"INFO", "WARNING">>
    /\ sev_out = "WARNING"

\* C6: the severity of every result an analyzer returned is the aggregation
\* of the severities of the issues of that result.
C6_ResultSeverityIsAggregate ==
    \A a \in DOMAIN audits :
        \A k \in 1..Len(task[a].results) :
            task[a].results[k].severity = Aggregate(task[a].results[k].issues)

-----------------------------------------------------------------------------
(* Properties of the rollup counters (specification Spec) *)

\* the analysis of the audit is over and its counters are set
Analyzed(a) == task[a].pc = "report" \/ audits[a].status = "COMPLETED"

\* C7: after the analysis passed_checks is the number of analyzers that
\* produced a result of severity SUCCESS or INFO, also when analyzers
\* raised and produced no result.
C7_PassedChecks ==
    \A a \in DOMAIN audits :
        Analyzed(a) =>
            audits[a].passed_checks =
                Cardinality({k \in 1..Len(audits[a].results) :
                                audits[a].results[k].severity \in {"SUCCESS", "INFO"}})

\* the issues of the results, each named by its place: (result, issue)
IssuePlaces(results) ==
    UNION {{<<k, j>> : j \in 1..Len(results[k].issues)} : k \in 1..Len(results)}

\* the sum of issue.count over a set of places
RECURSIVE SumCounts(_, _)
SumCounts(results, places) ==
    IF places = {} THEN 0
    ELSE LET pl == CHOOSE x \in places : TRUE
         IN results[pl[1]].issues[pl[2]].count + SumCounts(results, places \ {pl})

\* the places of the issues with a severity in sevs
PlacesOf(results, sevs) ==
    {pl \in IssuePlaces(results) : results[pl[1]].issues[pl[2]].severity \in sevs}

\* C8: after the analysis critical_issues is the sum of issue.count over the
\* ERROR issues of the recorded results, warnings the sum over the WARNING
\* issues, total_issues the sum over all issues, each issue counted once; so
\* total_issues = critical_issues + warnings + the INFO and SUCCESS counts.
C8_RollupCounters ==
    \A a \in DOMAIN audits :
        Analyzed(a) =>
            LET results == audits[a].results
            IN /\ results = task[a].results
               /\ audits[a].critical_issues = SumCounts(results, PlacesOf(results, {"ERROR"}))
               /\ audits[a].warnings = SumCounts(results, PlacesOf(results, {"WARNING"}))
               /\ audits[a].total_issues = SumCounts(results, IssuePlaces(results))
               /\ audits[a].total_issues =
                     audits[a].critical_issues + audits[a].warnings
                     + SumCounts(results, PlacesOf(results, {"INFO", "SUCCESS"}))

\* C8: counters of an audit with ERROR, WARNING, INFO and SUCCESS issues,
\* one of them with a count above 1
C8_Witness ==
    \E a \in DOMAIN audits :
        /\ Analyzed(a)
        /\ audits[a].critical_issues > 0
        /\ audits[a].warnings > 0
        /\ PlacesOf(audits[a].results, {"INFO"}) # {}
        /\ PlacesOf(audits[a].results, {"SUCCESS"}) # {}
        /\ \E pl \in IssuePlaces(audits[a].results) :
              audits[a].results[pl[1]].issues[pl[2]].count > 1

-----------------------------------------------------------------------------
(* Properties of the structural analyzers (specification SpecGraph) *)

\* the graph keeps the Page invariant: the chain ends at the page's url
PageInvariant(pages) ==
    \A k \in 1..Len(pages) :
        /\ pages[k].redirect_chain # <<>>
        /\ pages[k].redirect_chain[Len(pages[k].redirect_chain)] = pages[k].url

\* C9: the orphan set of StructureAnalyzer is the set of the URLs u whose
\* page has status 200, that are not the homepage, and that no page other
\* than u's own lists in its internal_links.
C9_OrphanSet ==
    graph_out.analyzer = "structure" =>
        Range(graph_out.orphan_pages) =
            {u \in Keys(graph) :
                /\ Get(graph, u).status_code = 200
                /\ u # BaseUrl /\ u # BaseUrl \o "/"
                /\ \A k \in 1..Len(graph) :
                      graph[k].url # u => u \notin graph[k].internal_links}

\* the URLs that redirect: the first URL of a chain with at least one hop,
\* with the URL the chain ends at
Redirecting(pages) ==
    {<<pages[k].redirect_chain[1], pages[k].url>> :
        k \in {j \in 1..Len(pages) : Len(pages[j].redirect_chain) >= 2}}

\* C10: on pages that keep the Page invariant the redirects analysis reports
\* (source, target, final) exactly when source is a 200-status page, target is
\* one of its internal_links and target is a URL that redirects, to final.
C10_LinksToRedirects ==
    (graph_out.analyzer = "redirects" /\ PageInvariant(graph)) =>
        Range(graph_out.internal_links_to_redirects) =
            {[source |-> graph[x[1]].url, target |-> x[2][1], final_url |-> x[2][2]] :
                x \in {y \in (1..Len(graph)) \X Redirecting(graph) :
                          /\ graph[y[1]].status_code = 200
                          /\ y[2][1] \in graph[y[1]].internal_links}}

\* the number of pages of the graph whose redirect chain has a hop count in H
ChainsWithHops(pages, H) ==
    Cardinality({k \in 1..Len(pages) : Len(pages[k].redirect_chain) - 1 \in H})

\* the count of the issue of a category in a result, 0 when there is none
IssueCount(result, category) ==
    LET sel == SelectSeq(result.issues, LAMBDA i : i.category = category)
    IN IF sel = <<>> THEN 0 ELSE sel[1].count

\* C11: chains of 0 or 1 hops raise no chain issue; the chains of exactly 2
\* hops are the count of the WARNING redirect_chains issue, the chains of 3
\* or more hops the count of the ERROR long_redirect_chains issue, and there
\* is at most one issue of each of the two categories.
C11_ChainClassification ==
    graph_out.analyzer = "redirects" =>
        LET issues == graph_out.result.issues
            two == SelectSeq(issues, LAMBDA i : i.category = "redirect_chains")
            long == SelectSeq(issues, LAMBDA i : i.category = "long_redirect_chains")
        IN /\ Len(two) <= 1 /\ Len(long) <= 1
           /\ \A k \in 1..Len(two) : two[k].severity = "WARNING" /\ two[k].count > 0
           /\ \A k \in 1..Len(long) : long[k].severity = "ERROR" /\ long[k].count > 0
           /\ IssueCount(graph_out.result, "redirect_chains") = ChainsWithHops(graph, {2})
           /\ IssueCount(graph_out.result, "long_redirect_chains")
                  = ChainsWithHops(graph, 3..MaxChain)
           /\ graph_out.chains_2_hops + graph_out.chains_3_plus
                  = ChainsWithHops(graph, 2..MaxChain)

\* C11: one page was reached in 2 hops and another in 3, and both issues
\* were raised with count 1
C11_Witness ==
    /\ graph_out.analyzer = "redirects"
    /\ ChainsWithHops(graph, {1}) = 0
    /\ ChainsWithHops(graph, {2}) = 1
    /\ ChainsWithHops(graph, 3..MaxChain) = 1
    /\ IssueCount(graph_out.result, "redirect_chains") = 1
    /\ IssueCount(graph_out.result, "long_redirect_chains") = 1

\* the pages of a graph with status 200
Only200(pages) == SelectSeq(pages, LAMBDA p : p.status_code = 200)

\* C12: the pages whose status is not 200 are left out of every structural
\* count: the depth distribution, the deep pages, the orphans, the pages
\* with few links, the redirect chain counts and the sources of links to
\* redirects are those of the graph without its non-200 pages.
C12_Non200Excluded ==
    /\ graph_out.analyzer = "structure" =>
          /\ graph_out.depth_distribution = depth_distribution(Only200(graph))
          /\ graph_out.deep_pages = deep_pages(Only200(graph))
          /\ graph_out.orphan_pages = orphan_pages(Only200(graph), BaseUrl)
          /\ graph_out.pages_with_few_links = pages_with_few_links(Only200(graph))
    /\ graph_out.analyzer = "redirects" =>
          /\ graph_out.chains_2_hops = Len(chains_2_hops(Only200(graph)))
          /\ graph_out.chains_3_plus = Len(chains_3_plus(Only200(graph)))
          /\ graph_out.total_redirects = Len(all_chains(Only200(graph)))
          /\ \A k \in 1..Len(graph_out.internal_links_to_redirects) :
                Get(graph, graph_out.internal_links_to_redirects[k].source).status_code = 200

\* the non-empty titles that two or more 200-status pages of the graph share
SharedTitles(pages) ==
    {t \in {pages[k].title : k \in 1..Len(pages)} :
        /\ t # ""
        /\ Cardinality({k \in 1..Len(pages) :
                           pages[k].status_code = 200 /\ pages[k].title = t}) >= 2}

\* C13: MetaTagsAnalyzer raises a duplicate_title issue iff some non-empty
\* title is shared by two or more 200-status pages; the number of duplicate
\* groups is the number of such titles, the count of the issue is the number
\* of 200-status pages with such a title whatever the cap on the listed
\* URLs, and every listed URL is a 200-status page with such a title.
C13_DuplicateTitles ==
    graph_out.analyzer = "meta_tags" =>
        LET dup == SelectSeq(graph_out.result.issues,
                             LAMBDA i : i.category = "duplicate_title")
            shared == SharedTitles(graph)
        IN /\ Len(dup) = (IF shared = {} THEN 0 ELSE 1)
           /\ Len(graph_out.duplicate_titles) = Cardinality(shared)
           /\ {graph_out.duplicate_titles[g][1] :
                   g \in 1..Len(graph_out.duplicate_titles)} = shared
           /\ \A d \in 1..Len(dup) :
                 /\ dup[d].count =
                       Cardinality({k \in 1..Len(graph) :
                           graph[k].status_code = 200 /\ graph[k].title \in shared})
                 /\ \A j \in 1..Len(dup[d].affected_urls) :
                       \E k \in 1..Len(graph) :
                           /\ graph[k].url = dup[d].affected_urls[j]
                           /\ graph[k].status_code = 200
                           /\ graph[k].title \in shared

\* C13: six pages share one title; the issue counts 6 and lists GROUP_CAP URLs
C13_Witness ==
    /\ graph_out.analyzer = "meta_tags"
    /\ Len(graph_out.duplicate_titles) = 1
    /\ IssueCount(graph_out.result, "duplicate_title") = GROUP_CAP + 1
    /\ \E i \in 1..Len(graph_out.result.issues) :
          /\ graph_out.result.issues[i].category = "duplicate_title"
          /\ Len(graph_out.result.issues[i].affected_urls) = GROUP_CAP

-----------------------------------------------------------------------------
(* Properties of SpeedAnalyzer (specifications SpecSpeed, SpecSpeedFair) *)

Strategies == {"mobile", "desktop"}

\* the outcomes of a request, as the history names them
Outcomes == {"ok", "quota", "http", "network", "timeout", "exception"}

\* the requests of a profile, and their outcomes, in order
Requests(strategy) ==
    SelectSeq(speed.log, LAMBDA e : e.ev = "request" /\ e.strategy = strategy)

Responses(strategy) ==
    SelectSeq(speed.log, LAMBDA e : e.ev \in Outcomes /\ e.strategy = strategy)

\* fetch_strategy(strategy) has returned
Returned(strategy) ==
    IF strategy = "mobile"
    THEN speed.pc = "delay" \/ speed.strategy = "desktop"
    ELSE speed.pc \in {"analyze", "done"}

\* what fetch_strategy(strategy) returned
Fetched(strategy) == IF strategy = "mobile" THEN speed.mobile ELSE speed.desktop

\* C14: the fetch of a profile sends at most 3 requests and returns metrics
\* or records exactly one fault, whatever the responses and with or without
\* a credential; the fetches end and analyze returns.
C14_FetchBounded ==
    /\ [](/\ \A strategy \in Strategies : Len(Requests(strategy)) <= 3
          /\ Len(speed.errors) =
                Cardinality({strategy \in Strategies :
                                Returned(strategy) /\ Fetched(strategy) = Nothing}))
    /\ <>(speed.pc = "done")

\* C14: the mobile fetch ended in a fault after three requests
C14_Witness ==
    /\ speed.pc = "done"
    /\ Len(Requests("mobile")) = 3
    /\ speed.mobile = Nothing

\* C15: after a quota fault of a request that carried the credential, on a
\* non-final attempt, the next request of the profile goes without the
\* credential, and no later request of the profile carries it; a quota
\* fault and then a success give the metrics after exactly two requests.
C15_QuotaDropsCredential ==
    \A strategy \in Strategies :
        LET reqs == Requests(strategy)
            resps == Responses(strategy)
        IN /\ \A i \in 1..Len(resps) :
                 (reqs[i].key /\ resps[i].ev = "quota" /\ reqs[i].attempt < max_retries - 1) =>
                     /\ ~Returned(strategy) \/ i < Len(reqs)
                     /\ i < Len(reqs) => ~reqs[i + 1].key
           /\ \A i \in 1..Len(reqs) : \A j \in i..Len(reqs) : ~reqs[i].key => ~reqs[j].key
           /\ (/\ Len(resps) = 2 /\ reqs[1].key
               /\ resps[1].ev = "quota" /\ resps[2].ev = "ok") =>
                 /\ Returned(strategy)
                 /\ Fetched(strategy) # Nothing
                 /\ Len(reqs) = 2
                 /\ ~reqs[2].key

\* C15: the mobile fetch met a quota fault with the credential, then a success
C15_Witness ==
    /\ speed.mobile # Nothing
    /\ Len(Requests("mobile")) = 2
    /\ Requests("mobile")[1].key
    /\ ~Requests("mobile")[2].key
    /\ Responses("mobile")[1].ev = "quota"

\* C16: a non-quota fault on a non-final attempt (a non-200 response with no
\* quota indication, a transport error, a timeout) is followed by a further
\* attempt, after a backoff shorter than the quota backoff of the attempt.
C16_NonQuotaFaultRetried ==
    \A strategy \in Strategies :
        LET reqs == Requests(strategy)
            resps == Responses(strategy)
        IN \A i \in 1..Len(resps) :
              (resps[i].ev \in {"http", "network", "timeout"}
                  /\ resps[i].attempt < max_retries - 1) =>
                  /\ Returned(strategy) => i < Len(reqs)
                  /\ (speed.pc = "sleep" /\ speed.strategy = strategy /\ i = Len(resps)) =>
                        speed.wait_time < (resps[i].attempt + 1) * 5

\* C17: when the fetch of a profile ended in a fault, analyze returns a
\* result with a WARNING issue whose details carry the error text, whether
\* both profiles failed or one of them.
C17_FaultSurfacedAsWarning ==
    (speed.pc = "done" /\ speed.errors # <<>>) =>
        /\ speed.result # Nothing
        /\ \E i \in 1..Len(speed.result[1].issues) :
              /\ speed.result[1].issues[i].severity = "WARNING"
              /\ speed.result[1].issues[i].details = Join(speed.errors)

\* C18: the history has the mobile fetch, whole, then the delay, then the
\* desktop fetch: every request is answered before the next entry, the
\* mobile fetch has returned before the delay, no desktop entry comes before
\* the delay, and the desktop fetch is attempted whatever the mobile fetch
\* returned.
C18_ProfilesSequential ==
    LET log == speed.log
    IN /\ \A i \in 1..Len(log) :
             /\ (log[i].ev = "request" /\ i < Len(log)) =>
                   /\ log[i + 1].ev \in Outcomes
                   /\ log[i + 1].strategy = log[i].strategy
                   /\ log[i + 1].attempt = log[i].attempt
             /\ log[i].strategy = "desktop" =>
                   \E d \in 1..(i - 1) :
                       /\ log[d].ev = "delay"
                       /\ d > 1
                       /\ log[d - 1].ev \in Outcomes
                       /\ \A k \in 1..(d - 1) : log[k].strategy = "mobile"
                       /\ \A k \in (d + 1)..Len(log) : log[k].strategy = "desktop"
       /\ speed.pc \in {"analyze", "done"} =>
             /\ Len(Requests("mobile")) >= 1
             /\ Len(Requests("desktop")) >= 1

\* C18: the mobile fetch failed after three requests and two backoffs, and
\* the desktop fetch then returned metrics
C18_Witness ==
    /\ speed.pc = "done"
    /\ speed.mobile = Nothing
    /\ Len(Requests("mobile")) = 3
    /\ speed.desktop # Nothing

-----------------------------------------------------------------------------
(* Properties of the progress events (specification Spec) *)

\* the events of an audit with a status, in the order they were put
EventsWith(a, status) == SelectSeq(audit_queues[a], LAMBDA e : e.status = status)

\* p <= q and p < q for progress values kept as fractions
FracLeq(p, q) == p[1] * q[2] <= q[1] * p[2]

FracLess(p, q) == p[1] * q[2] < q[1] * p[2]

\* C19: the progress values of the events with status CRAWLING never
\* decrease, and each is at least 0 and less than 40.
C19_CrawlProgress ==
    \A a \in DOMAIN audit_queues :
        LET crawling == EventsWith(a, "CRAWLING")
        IN /\ \A i \in 1..Len(crawling) :
                 /\ FracLeq(<<0, 1>>, crawling[i].progress)
                 /\ FracLess(crawling[i].progress, <<40, 1>>)
           /\ \A i \in 1..Len(crawling) : \A j \in i..Len(crawling) :
                 FracLeq(crawling[i].progress, crawling[j].progress)

\* C20: there is one event with status ANALYZING per analyzer called (N in
\* all for N analyzers), put before the analyzer is called, and each carries
\* a progress of at least 40 and less than 80.
C20_AnalyzeProgress ==
    \A a \in DOMAIN task :
        LET analyzing == EventsWith(a, "ANALYZING")
        IN /\ \A i \in 1..Len(analyzing) :
                 /\ FracLeq(<<40, 1>>, analyzing[i].progress)
                 /\ FracLess(analyzing[i].progress, <<80, 1>>)
           /\ task[a].pc \in {"analyze", "in_analyzer", "report"} =>
                 Len(analyzing) = Len(task[a].calls)
           /\ task[a].pc = "report" => Len(analyzing) = Len(analyzers)

-----------------------------------------------------------------------------
(* Properties of the progress streams (specification SpecApi) *)

\* the progress events a stream has relayed, without its keepalives
Events(stream) ==
    LET progress == SelectSeq(stream.relayed, LAMBDA r : r.event = "progress")
    IN [k \in 1..Len(progress) |-> progress[k].data]

\* s can be read off t from left to right, skipping elements of t
RECURSIVE IsSubSeq(_, _)
IsSubSeq(s, t) ==
    IF s = <<>> THEN TRUE
    ELSE IF t = <<>> THEN FALSE
    ELSE IF Head(s) = Head(t) THEN IsSubSeq(Tail(s), Tail(t))
    ELSE IsSubSeq(s, Tail(t))

\* the relayed item is a progress event with status COMPLETED or FAILED
IsTerminal(r) == r.event = "progress" /\ r.data.status \in {"COMPLETED", "FAILED"}

\* C21: a progress stream relays the events of the queue in the order they
\* were put (all of them, from the first, while it is the only reader), a
\* keepalive leaves it open, and it ends right after the first event with
\* status COMPLETED or FAILED it relays: nothing follows that event.
C21_StreamRelaysInOrder ==
    \A stream_id \in DOMAIN streams :
        LET stream == streams[stream_id]
            queue == audit_queues[stream.audit_id]
            n == Len(stream.relayed)
        IN /\ IsSubSeq(Events(stream), SubSeq(queue, 1, Taken(stream.audit_id)))
           /\ (\A other \in DOMAIN streams \ {stream_id} :
                   Events(streams[other]) = <<>>) =>
                 Events(stream) = SubSeq(queue, 1, Taken(stream.audit_id))
           /\ \A k \in 1..(n - 1) : ~IsTerminal(stream.relayed[k])
           /\ stream.open <=> (n = 0 \/ ~IsTerminal(stream.relayed[n]))

\* C21: a stream sent a keepalive, relayed events after it, and ended with
\* the COMPLETED event
C21_Witness ==
    \E stream_id \in DOMAIN streams :
        LET stream == streams[stream_id]
            n == Len(stream.relayed)
        IN /\ ~stream.open
           /\ n >= 4
           /\ \E k \in 2..(n - 2) : stream.relayed[k] = Ping
           /\ stream.relayed[n].data.status = "COMPLETED"

-----------------------------------------------------------------------------
(* Properties of the progress queue (specification Spec: no stream is     *)
(* opened, so no event is ever taken)                                      *)

\* C22: the queue of an audit is bounded: there is a capacity that the
\* number of events put and not yet taken never exceeds, however many pages
\* are crawled and even when no consumer is attached.
C22_QueueBounded ==
    \E capacity \in 1..MaxCapacity :
        \A a \in DOMAIN audit_queues : qsize(a) <= capacity

\* the positions of the events with status COMPLETED or FAILED in a queue
TerminalEvents(a) ==
    {k \in 1..Len(audit_queues[a]) : audit_queues[a][k].status \in {"COMPLETED", "FAILED"}}

\* C27: a run of run_audit that has returned has put exactly one event with
\* status COMPLETED or FAILED, that event is the last one put for the audit
\* and its status is the final status of the audit; a run that has not
\* returned has put none.
C27_OneTerminalEvent ==
    \A a \in DOMAIN task :
        IF task[a].pc = "done"
        THEN /\ TerminalEvents(a) = {Len(audit_queues[a])}
             /\ audit_queues[a][Len(audit_queues[a])].status = audits[a].status
             /\ audits[a].status \in {"COMPLETED", "FAILED"}
        ELSE TerminalEvents(a) = {}

\* C27: a run returned after a fault in the report generator, its FAILED
\* event following the GENERATING_REPORT event
C27_Witness ==
    \E a \in DOMAIN task :
        /\ task[a].pc = "done"
        /\ audits[a].status = "FAILED"
        /\ Len(audit_queues[a]) >= 2
        /\ audit_queues[a][Len(audit_queues[a]) - 1].status = "GENERATING_REPORT"

\* progress values as fractions: at least 0 and at most 100
InRange(p) == FracLeq(<<0, 1>>, p) /\ FracLeq(p, <<100, 1>>)

\* the order of the stages of a run that does not fail
StageRank(status) ==
    CASE status = "CRAWLING" -> 1
      [] status = "ANALYZING" -> 2
      [] status = "GENERATING_REPORT" -> 3
      [] status = "COMPLETED" -> 4
      [] OTHER -> 0

\* C29: every event of an audit carries a progress of at least 0 and at most
\* 100; the stages follow each other in the order CRAWLING, ANALYZING,
\* GENERATING_REPORT (one event, progress 85), COMPLETED (progress 100), and
\* the progress never decreases from an event to the next, except for a
\* FAILED event, which carries progress 0.
C29_ProgressMonotone ==
    \A a \in DOMAIN audit_queues :
        LET queue == audit_queues[a]
        IN /\ \A k \in 1..Len(queue) :
                 /\ InRange(queue[k].progress)
                 /\ queue[k].status = "GENERATING_REPORT" => queue[k].progress = <<85, 1>>
                 /\ queue[k].status = "COMPLETED" => queue[k].progress = <<100, 1>>
                 /\ queue[k].status = "FAILED" => queue[k].progress = <<0, 1>>
           /\ Len(EventsWith(a, "GENERATING_REPORT")) <= 1
           /\ \A k \in 1..(Len(queue) - 1) :
                 queue[k + 1].status # "FAILED" =>
                     /\ FracLeq(queue[k].progress, queue[k + 1].progress)
                     /\ StageRank(queue[k].status) <= StageRank(queue[k + 1].status)

\* C29: a run went through every stage up to progress 100, and another
\* dropped from 85 to 0 with its FAILED event
C29_Witness ==
    \E a \in DOMAIN audit_queues :
        LET queue == audit_queues[a]
            n == Len(queue)
        IN /\ n >= 2
           /\ queue[n - 1].progress = <<85, 1>>
           /\ queue[n].status = "FAILED"
           /\ Len(EventsWith(a, "CRAWLING")) >= 3
           /\ Len(EventsWith(a, "ANALYZING")) >= 3

-----------------------------------------------------------------------------
(* Properties of download_report and get_audit (specification SpecDownload) *)

\* the status codes of an error response
ErrorCodes == {400, 404, 500}

\* C24: while the status of an audit is not COMPLETED, download_report
\* answers with an error for every format (whatever is on disk and whatever
\* converter is installed), and so does every call actually made; an audit
\* whose status is FAILED has no report path, in its record and in the
\* response of get_audit.
C24_NoPartialReport ==
    /\ [](\A a \in DOMAIN audits :
            /\ audits[a].status # "COMPLETED" =>
                  \A format \in Formats, file_exists \in BOOLEAN, importable \in BOOLEAN :
                      download_response(a, format, file_exists, importable).status_code
                          \in ErrorCodes
            /\ audits[a].status = "FAILED" =>
                  /\ audits[a].report_path = None
                  /\ get_audit(a).report_path = None)
    /\ [][\A a \in DOMAIN audits :
            (reply' # reply /\ reply'.audit_id = a /\ audits[a].status # "COMPLETED")
                => reply'.status_code \in ErrorCodes]_vars

\* C24: the PDF report of an audit that failed was asked for and refused
C24_Witness ==
    /\ reply # NoResponse
    /\ reply.audit_id \in DOMAIN audits
    /\ audits[reply.audit_id].status = "FAILED"
    /\ reply.format = "pdf"
    /\ reply.status_code = 400

-----------------------------------------------------------------------------
(* Termination of the progress streams (specification SpecApiFair) *)

\* the stream is open(ed) and the run of its audit has ended
RunEnded(stream_id) ==
    IF stream_id \in DOMAIN streams
    THEN audits[streams[stream_id].audit_id].status \in {"COMPLETED", "FAILED"}
    ELSE FALSE

\* the generator of the stream has returned
StreamEnded(stream_id) ==
    IF stream_id \in DOMAIN streams THEN ~streams[stream_id].open ELSE FALSE

\* C28: once the run of an audit has reached COMPLETED or FAILED, every
\* progress stream opened for that audit eventually ends, whether it is the
\* only stream, one of two open at once, or opened after the COMPLETED or
\* FAILED event was taken from the queue.
C28_StreamsTerminate ==
    \A stream_id \in StreamIds : RunEnded(stream_id) ~> StreamEnded(stream_id)

-----------------------------------------------------------------------------
(* Two audits run side by side (specification SpecTwo) *)

\* what belongs to an audit: its record, its queue, the frame of its run
Own(a) ==
    [audit |-> IF a \in DOMAIN audits THEN <<audits[a]>> ELSE <<>>,
     queue |-> IF a \in DOMAIN audit_queues THEN <<audit_queues[a]>> ELSE <<>>,
     task |-> IF a \in DOMAIN task THEN <<task[a]>> ELSE <<>>]

\* the record a run that was alone would have left, read off the pages,
\* results and fault of the run
AloneRecord(a) ==
    LET t == task[a]
    IN [NewAudit(a, BaseUrl) EXCEPT
           !.status = IF t.exc = None THEN "COMPLETED" ELSE "FAILED",
           !.error_message = t.exc,
           !.report_path = IF t.exc = None THEN ReportPath ELSE None,
           !.pages = IF Len(EventsWith(a, "ANALYZING")) > 0 THEN t.pages ELSE <<>>,
           !.pages_crawled = IF Len(EventsWith(a, "ANALYZING")) > 0 THEN Len(t.pages) ELSE 0,
           !.results = IF Len(EventsWith(a, "GENERATING_REPORT")) > 0 THEN t.results ELSE EmptyDict,
           !.critical_issues = IF Len(EventsWith(a, "GENERATING_REPORT")) > 0
                               THEN CountResults(t.results, {"ERROR"}) ELSE 0,
           !.warnings = IF Len(EventsWith(a, "GENERATING_REPORT")) > 0
                        THEN CountResults(t.results, {"WARNING"}) ELSE 0,
           !.total_issues = IF Len(EventsWith(a, "GENERATING_REPORT")) > 0
                            THEN CountResults(t.results, SeverityLevel) ELSE 0,
           !.passed_checks = IF Len(EventsWith(a, "GENERATING_REPORT")) > 0
                             THEN Len(analyzers) - NotPassed(t.results)
                             ELSE NewAudit(a, BaseUrl).passed_checks]

\* C23: a step of the run of an audit changes nothing that belongs to the
\* other audit (its record, its queue with the events on it, its run), in
\* any interleaving of the two runs; and the record an audit ends with is
\* the one its run leaves when alone: it is determined by the pages, the
\* results and the fault of its own run.
C23_AuditsIndependent ==
    /\ [][\A a \in TwoAuditIds : \A b \in TwoAuditIds \ {a} :
            Own(a).task' # Own(a).task => Own(b)' = Own(b)]_vars
    /\ [](\A a \in DOMAIN task : task[a].pc = "done" => audits[a] = AloneRecord(a))

\* C23: both runs have ended, one COMPLETED after two pages and the other
\* FAILED after one page and the first analyzers
C23_Witness ==
    /\ DOMAIN task = TwoAuditIds
    /\ \E a \in TwoAuditIds : \E b \in TwoAuditIds \ {a} :
          /\ task[a].pc = "done" /\ audits[a].status = "COMPLETED"
          /\ audits[a].pages_crawled = 2
          /\ task[b].pc = "done" /\ audits[b].status = "FAILED"
          /\ audits[b].pages_crawled = 1
          /\ Len(task[b].results) = 2

-----------------------------------------------------------------------------
(* Properties of the orphan set (specification SpecGraph) *)

\* the same dict with its entries in every order
Orders(pages) ==
    {[k \in 1..Len(pages) |-> pages[p[k]]] :
        p \in {f \in [1..Len(pages) -> 1..Len(pages)] :
                  \A i, j \in 1..Len(pages) : f[i] = f[j] => i = j}}

\* pages[page.url] = page
PutPage(pages, page) ==
    IF page.url \in Keys(pages)
    THEN [k \in 1..Len(pages) |-> IF pages[k].url = page.url THEN page ELSE pages[k]]
    ELSE Append(pages, page)

\* the pages added to a graph
AddedPages == HomePages \cup InnerPages("a") \cup InnerPages("b") \cup InnerPages("c")

\* the orphan set of a graph
Orphans(pages) == Range(orphan_pages(pages, BaseUrl))

\* C25: the orphan set of a graph is the same for every order of the
\* entries of the dict and for a repeated run; and for every orphan O,
\* adding any page X other than O whose internal_links contain O gives a
\* graph whose orphan set does not contain O.
C25_OrphansStable ==
    /\ \A pages \in Orders(graph) : Orphans(pages) = Orphans(graph)
    /\ graph_out.analyzer = "structure" =>
          Range(graph_out.orphan_pages) = Orphans(graph)
    /\ \A O \in Orphans(graph) : \A X \in AddedPages :
          (X.url # O /\ O \in X.internal_links) => O \notin Orphans(PutPage(graph, X))

-----------------------------------------------------------------------------
(* Structural edge cases (specification SpecGraph) *)

\* the graph has no record for the homepage
NoHomepage(pages) == \A k \in 1..Len(pages) : ~is_homepage(pages[k].url, BaseUrl)

\* C26: on the empty graph, and on a graph without a record for the
\* homepage, StructureAnalyzer, RedirectsAnalyzer and the homepage lookup
\* of CMSAnalyzer raise nothing; on the empty graph the depth distribution,
\* the deep pages, the orphans, the redirect chains and the internal links
\* to redirects are all empty, and the lookup finds no homepage.
C26_EdgeCasesNeverRaise ==
    (graph_out.analyzer # "-" /\ NoHomepage(graph)) =>
        /\ ~graph_out.raised
        /\ (graph = <<>> /\ graph_out.analyzer = "structure") =>
              /\ graph_out.depth_distribution = EmptyDict
              /\ graph_out.deep_pages = <<>>
              /\ graph_out.orphan_pages = <<>>
              /\ graph_out.result.issues = <<>>
        /\ (graph = <<>> /\ graph_out.analyzer = "redirects") =>
              /\ graph_out.total_redirects = 0
              /\ graph_out.internal_links_to_redirects = <<>>
              /\ Len(graph_out.result.issues) = 1
              /\ graph_out.result.issues[1].category = "no_redirect_issues"
        /\ (graph = <<>> /\ graph_out.analyzer = "cms") =>
              graph_out.home_page = Nothing

\* C26: StructureAnalyzer has run on the empty graph
C26_Witness ==
    /\ graph = <<>>
    /\ graph_out.analyzer = "structure"
    /\ graph_out.result.severity = "SUCCESS"

-----------------------------------------------------------------------------
(* Properties of the issues of an analyzer (specification SpecSections) *)

\* C30: every issue of the result of an analyzer lists at most 20
\* affected_urls, and its count is at least the number of affected_urls it
\* lists.
C30_IssueCounts ==
    graph_out.analyzer # "-" =>
        \A k \in 1..Len(graph_out.result.issues) :
            LET issue == graph_out.result.issues[k]
            IN /\ Len(issue.affected_urls) <= AFFECTED_CAP
               /\ issue.count >= Len(issue.affected_urls)

====
